---- MODULE Spec2Model ----
(***************************************************************************)
(* Hawkeye: the manager API's watcher state machine over the orchestrator  *)
(* objects (hawkeye-api/src/handlers.rs).                                  *)
(*                                                                         *)
(* The orchestrator namespace is the only state: three collections of      *)
(* named objects (Deployment, ConfigMap, Service).  Every handler is a     *)
(* short sequence of orchestrator RPCs; each RPC is one atomic step, the   *)
(* handler-local code before it and the reply after the last one belong    *)
(* to the step.  An RPC on a named object fails iff the object is absent   *)
(* (create: iff the name is taken).                                        *)
(***************************************************************************)
EXTENDS Integers, Sequences, FiniteSets, TLC

\* ------------------------------------------------------------------ bounds
MaxIds == 2        \* watcher ids Create may hand out (Uuid::new_v4, never reused)
MaxFaults == 1     \* out-of-band edits of the namespace by an operator
MaxAvail == 2      \* largest available_replicas the status derivation is probed with

Ids == 1..MaxIds
Clients == {"c1", "c2"}
Serial == {"c1"}

\* ------------------------------------------------------------ Option<T>
None == {}
Some(x) == {x}
Unwrap(o) == CHOOSE x \in o : TRUE
UnwrapOr(o, dflt) == IF o = None THEN dflt ELSE Unwrap(o)

\* ------------------------------------------------------- models::Status
Statuses == {"Running", "Ready", "Updating", "Error"}

\* serde name of a variant (rename_all = "lowercase")
StatusName(s) ==
    CASE s = "Running" -> "running"
      [] s = "Ready" -> "ready"
      [] s = "Updating" -> "updating"
      [] s = "Error" -> "error"

\* serde_json::from_str(&format!("\"{}\"", label)).ok()
ParseStatus(label) ==
    LET hits == {s \in Statuses : StatusName(s) = label}
    IN  IF hits = {} THEN None ELSE Some(CHOOSE s \in hits : TRUE)

\* ------------------------------------------------------------ templates
configmap_name(watcher_id) == <<"hawkeye-config-", watcher_id>>
deployment_name(watcher_id) == <<"hawkeye-deploy-", watcher_id>>
service_name(watcher_id) == <<"hawkeye-vid-svc-", watcher_id>>

\* the label pair every object of a watcher carries
WatcherLabels(watcher_id) == [app |-> "hawkeye", watcher_id |-> watcher_id]

\* a JSON merge patch of one key of a map
MapPut(m, k, v) == [x \in DOMAIN m \cup {k} |-> IF x = k THEN v ELSE m[x]]

\* Variants of get_watcher_status with one slip each.
\* (a) the replica test reads >= 0 instead of > 0
get_watcher_status_ge(d) ==
    LET target_status ==
            IF d.labels = None THEN "Error"
            ELSE LET labels == Unwrap(d.labels)
                 IN  IF "target_status" \notin DOMAIN labels THEN "Error"
                     ELSE UnwrapOr(ParseStatus(labels["target_status"]), "Error")
    IN  IF d.status # None
        THEN LET status == Unwrap(d.status)
                 deploy_status ==
                     IF UnwrapOr(status.available_replicas, 0) >= 0
                     THEN "Running" ELSE "Ready"
             IN  CASE deploy_status = "Running" /\ target_status = "Running" -> "Running"
                   [] deploy_status = "Ready" /\ target_status = "Ready" -> "Ready"
                   [] deploy_status = "Ready" /\ target_status = "Running" -> "Updating"
                   [] deploy_status = "Running" /\ target_status = "Ready" -> "Updating"
                   [] OTHER -> "Error"
        ELSE "Error"

\* (b) a missing or unparsable target_status label falls back to Ready
get_watcher_status_dflt(d) ==
    LET target_status ==
            IF d.labels = None THEN "Ready"
            ELSE LET labels == Unwrap(d.labels)
                 IN  IF "target_status" \notin DOMAIN labels THEN "Ready"
                     ELSE UnwrapOr(ParseStatus(labels["target_status"]), "Ready")
    IN  IF d.status # None
        THEN LET status == Unwrap(d.status)
                 deploy_status ==
                     IF UnwrapOr(status.available_replicas, 0) > 0
                     THEN "Running" ELSE "Ready"
             IN  CASE deploy_status = "Running" /\ target_status = "Running" -> "Running"
                   [] deploy_status = "Ready" /\ target_status = "Ready" -> "Ready"
                   [] deploy_status = "Ready" /\ target_status = "Running" -> "Updating"
                   [] deploy_status = "Running" /\ target_status = "Ready" -> "Updating"
                   [] OTHER -> "Error"
        ELSE "Error"

\* ------------------------------------------------- WatcherStatus for Deployment
get_watcher_status(d) ==
    LET target_status ==
            IF d.labels = None THEN "Error"
            ELSE LET labels == Unwrap(d.labels)
                 IN  IF "target_status" \notin DOMAIN labels THEN "Error"
                     ELSE UnwrapOr(ParseStatus(labels["target_status"]), "Error")
    IN  IF d.status # None
        THEN LET status == Unwrap(d.status)
                 deploy_status ==
                     IF UnwrapOr(status.available_replicas, 0) > 0
                     THEN "Running" ELSE "Ready"
             IN  CASE deploy_status = "Running" /\ target_status = "Running" -> "Running"
                   [] deploy_status = "Ready" /\ target_status = "Ready" -> "Ready"
                   [] deploy_status = "Ready" /\ target_status = "Running" -> "Updating"
                   [] deploy_status = "Running" /\ target_status = "Ready" -> "Updating"
                   [] OTHER -> "Error"
        ELSE "Error"

\* ------------------------------------------------------------- state
VARIABLES
    deployments,   \* Api<Deployment>: name -> object
    config_maps,   \* Api<ConfigMap>:  name -> object
    services,      \* Api<Service>:    name -> object
    req,           \* per client: the request in flight and its reply
    nextId,        \* the next id Uuid::new_v4 yields
    faults,        \* operator edits made so far
    probe          \* input and result of a function evaluated directly

\* the worker: its actions runtime and the channel that feeds it
VARIABLES
    executors,     \* Runtime.actions: Vec<ActionExecutor>
    channel,       \* mpsc channel of Event, oldest first
    sender,        \* "open" while a Sender of the channel is alive
    rt,            \* where Runtime::run_blocking stands
    clock,         \* Instant::now(), in seconds
    sent,          \* every Event put on the channel, in order
    seen,          \* per executor: the modes handed to execute, in order, and
                   \* when the last one was
    invoked        \* per executor: the calls of its action: on which event (n)
                   \* and when, how it returned and when

\* the worker's main thread: main_loop over the pipeline's message bus
VARIABLES
    running,       \* Arc<AtomicBool> cleared by the ctrlc handler
    pipeline,      \* gst::State of the pipeline
    bus,           \* messages posted on the pipeline's bus, oldest first
    main,          \* where main_loop stands and what it returned
    callback       \* "panicked" once a new-sample callback has panicked

\* the worker's pipeline callback thread and the latest frame it publishes
VARIABLES
    handler,       \* where the new-sample callback stands in the sample at hand
    cell,          \* LATEST_FRAME: the buffers allocated for it, and which of
                   \* them is the committed one (0: None)
    reader,        \* a reader of LATEST_FRAME: the buffer its snapshot points
                   \* to and the bytes it has copied from it
    metrics        \* the IntCounters of the callback and of HttpCall::execute,
                   \* and the response the last call got

framevars == <<handler, cell, reader, metrics>>

loopvars == <<running, pipeline, bus, main, callback, framevars>>

workervars == <<executors, channel, sender, rt, clock, sent, seen, invoked, loopvars>>

vars == <<deployments, config_maps, services, req, nextId, faults, probe, workervars>>

\* ------------------------------------------------- models::Watcher (JSON)
WatcherKeys == {"id", "status", "ingest_ip"}

\* serde_json::to_string with skip_serializing_none: absent fields are omitted
Serialise(w) ==
    [k \in {f \in WatcherKeys : w[f] # None} |->
        IF k = "status" THEN StatusName(Unwrap(w[k])) ELSE Unwrap(w[k])]

\* serde_json::from_str: a missing Option field is None
Parse(j) ==
    [id |-> IF "id" \in DOMAIN j THEN Some(j["id"]) ELSE None,
     status |-> IF "status" \in DOMAIN j THEN ParseStatus(j["status"]) ELSE None,
     ingest_ip |-> IF "ingest_ip" \in DOMAIN j THEN Some(j["ingest_ip"]) ELSE None]

\* ------------------------------------------------ orchestrator objects
build_configmap(watcher_id, contents) ==
    [name |-> configmap_name(watcher_id),
     labels |-> Some(WatcherLabels(watcher_id)),
     data |-> [log_level |-> "INFO", watcher_json |-> contents]]

build_deployment(watcher_id) ==
    [name |-> deployment_name(watcher_id),
     labels |-> Some(MapPut(WatcherLabels(watcher_id), "target_status", StatusName("Ready"))),
     replicas |-> 0,
     status |-> None]

\* ingress: status.load_balancer.ingress, filled in by the orchestrator
build_service(watcher_id) ==
    [name |-> service_name(watcher_id),
     labels |-> Some(WatcherLabels(watcher_id)),
     ingress |-> <<>>]

\* ------------------------------------------------ orchestrator RPCs
Exists(coll, name) == name \in DOMAIN coll
Created(coll, obj) == (obj.name :> obj) @@ coll
Deleted(coll, name) == [n \in DOMAIN coll \ {name} |-> coll[n]]

\* patch_scale with {"spec": {"replicas": n}}
PatchScale(coll, name, n) == [coll EXCEPT ![name].replicas = n]

\* patch with {"metadata": {"labels": {"target_status": s}}}
PatchTargetStatus(coll, name, s) ==
    [coll EXCEPT ![name].labels = Some(MapPut(UnwrapOr(@, <<>>), "target_status", StatusName(s)))]

\* the record of one RPC a handler issued and whether it returned Ok
Call(verb, kind, name, ok) == [verb |-> verb, kind |-> kind, name |-> name, ok |-> ok]

\* ------------------------------------------------ requests and replies
\* peers: the clients whose request was being handled when this one arrived;
\* index: list_watchers' deployments_index
Idle ==
    [op |-> "idle", pc |-> "idle", id |-> 0, arg |-> None, dep |-> None, w |-> None,
     calls |-> <<>>, code |-> 0, msg |-> "", body |-> None, peers |-> {}, index |-> <<>>]

\* reply::with_status(reply::json(..), code)
Reply(r, code, msg, body) ==
    [r EXCEPT !.pc = "done", !.code = code, !.msg = msg, !.body = body]

\* .unwrap() on an Err: the handler task panics and no reply is produced
Panic(r) == [r EXCEPT !.pc = "panicked"]

Issued(r, call) == [r EXCEPT !.calls = Append(@, call)]

\* no request is in flight
Quiet == \A c \in Clients : req[c].pc = "idle"

\* the clients whose request is inside its handler
InFlight == {c \in Clients : req[c].pc \notin {"idle", "done", "panicked"}}

Begin(op, id) == [Idle EXCEPT !.op = op, !.id = id, !.peers = InFlight]

\* no sample has been delivered, LATEST_FRAME is CowCell::new(None), the
\* counters are freshly registered
FrameOff ==
    /\ handler = [pc |-> "idle", n |-> 0, is_match |-> FALSE, txn |-> None]
    /\ cell = [active |-> 0, frames |-> <<>>]
    /\ reader = [pc |-> "idle", snap |-> 0, copy |-> <<>>]
    /\ metrics = [slate |-> 0, content |-> 0, similarity |-> 0,
                  http_success |-> 0, http_error |-> 0, response |-> None]

\* main_loop has not been entered
LoopOff ==
    /\ running = TRUE
    /\ pipeline = "Null"
    /\ bus = <<>>
    /\ main = [pc |-> "off", result |-> None]
    /\ callback = "ok"
    /\ FrameOff

\* no worker is running
WorkerOff ==
    /\ LoopOff
    /\ executors = <<>>
    /\ channel = <<>>
    /\ sender = "open"
    /\ rt = [pc |-> "off", mode |-> None, i |-> 0]
    /\ clock = 0
    /\ sent = <<>>
    /\ seen = <<>>
    /\ invoked = <<>>

Init ==
    /\ deployments = <<>>
    /\ config_maps = <<>>
    /\ services = <<>>
    /\ req = [c \in Clients |-> Idle]
    /\ nextId = 1
    /\ faults = 0
    /\ probe = [phase |-> "off", labels |-> None, status |-> None, result |-> "Error"]
    /\ WorkerOff

\* StartGet with the Updating arm falling through to the Ready arm
StartGet_updating(c, id) ==
    /\ req[c].pc = "idle"
    /\ LET name == deployment_name(id)
           q == Issued(Begin("start", id),
                       Call("get", "deployment", name, Exists(deployments, name)))
       IN  req' = [req EXCEPT ![c] =
                IF ~Exists(deployments, name) THEN Reply(q, 404, "", None)
                ELSE LET deployment == deployments[name]
                         r == [q EXCEPT !.dep = Some(deployment)]
                         st == get_watcher_status(deployment)
                     IN  CASE st = "Running" -> Reply(r, 409, "Watcher is already running", None)
                           [] st \in {"Ready", "Updating"} ->
                                [r EXCEPT !.pc = "start_scale"]
                           [] st = "Error" ->
                                Reply(r, 406, "Watcher in error state cannot be set to running", None)]
    /\ UNCHANGED <<deployments, config_maps, services, nextId, faults, probe, workervars>>

\* ------------------------------------------------------- start_watcher
\* get the Deployment, derive the status, reply unless it is Ready
StartGet(c, id) ==
    /\ req[c].pc = "idle"
    /\ LET name == deployment_name(id)
           q == Issued(Begin("start", id),
                       Call("get", "deployment", name, Exists(deployments, name)))
       IN  req' = [req EXCEPT ![c] =
                IF ~Exists(deployments, name) THEN Reply(q, 404, "", None)
                ELSE LET deployment == deployments[name]
                         r == [q EXCEPT !.dep = Some(deployment)]
                         st == get_watcher_status(deployment)
                     IN  CASE st = "Running" -> Reply(r, 409, "Watcher is already running", None)
                           [] st = "Updating" -> Reply(r, 409, "Watcher is updating", None)
                           [] st = "Ready" ->
                                [r EXCEPT !.pc = "start_scale"]
                           [] st = "Error" ->
                                Reply(r, 406, "Watcher in error state cannot be set to running", None)]
    /\ UNCHANGED <<deployments, config_maps, services, nextId, faults, probe, workervars>>

\* StartScale with the scale patch carrying the wrong replica count
StartScale_zero(c) ==
    /\ req[c].pc = "start_scale"
    /\ LET name == Unwrap(req[c].dep).name
           r == Issued(req[c],
                       Call("patch_scale", "deployment", name, Exists(deployments, name)))
       IN  IF Exists(deployments, name)
           THEN /\ deployments' = PatchScale(deployments, name, 0)
                /\ req' = [req EXCEPT ![c] = [r EXCEPT !.pc = "start_label"]]
           ELSE /\ req' = [req EXCEPT ![c] = Panic(r)]
                /\ UNCHANGED deployments
    /\ UNCHANGED <<config_maps, services, nextId, faults, probe, workervars>>

\* patch_scale(replicas = 1).await.unwrap()
StartScale(c) ==
    /\ req[c].pc = "start_scale"
    /\ LET name == Unwrap(req[c].dep).name
           r == Issued(req[c],
                       Call("patch_scale", "deployment", name, Exists(deployments, name)))
       IN  IF Exists(deployments, name)
           THEN /\ deployments' = PatchScale(deployments, name, 1)
                /\ req' = [req EXCEPT ![c] = [r EXCEPT !.pc = "start_label"]]
           ELSE /\ req' = [req EXCEPT ![c] = Panic(r)]
                /\ UNCHANGED deployments
    /\ UNCHANGED <<config_maps, services, nextId, faults, probe, workervars>>

\* StartLabel replying 200 without patching the target_status label
StartLabel_skip(c) ==
    /\ req[c].pc = "start_label"
    /\ LET r == req[c]
       IN  req' = [req EXCEPT ![c] = Reply(r, 200, "Watcher is starting", None)]
    /\ UNCHANGED <<deployments, config_maps, services, nextId, faults, probe, workervars>>

\* StartLabel patching the label of every Deployment instead of the named one
StartLabel_all(c) ==
    /\ req[c].pc = "start_label"
    /\ LET name == Unwrap(req[c].dep).name
           r == Issued(req[c],
                       Call("patch", "deployment", name, Exists(deployments, name)))
       IN  /\ deployments' =
                [n \in DOMAIN deployments |->
                    PatchTargetStatus(deployments, n, "Running")[n]]
           /\ req' = [req EXCEPT ![c] = Reply(r, 200, "Watcher is starting", None)]
    /\ UNCHANGED <<config_maps, services, nextId, faults, probe, workervars>>

\* let _ = patch(target_status = Running).await; reply 200
StartLabel(c) ==
    /\ req[c].pc = "start_label"
    /\ LET name == Unwrap(req[c].dep).name
           r == Issued(req[c],
                       Call("patch", "deployment", name, Exists(deployments, name)))
       IN  /\ deployments' =
                IF Exists(deployments, name)
                THEN PatchTargetStatus(deployments, name, "Running")
                ELSE deployments
           /\ req' = [req EXCEPT ![c] = Reply(r, 200, "Watcher is starting", None)]
    /\ UNCHANGED <<config_maps, services, nextId, faults, probe, workervars>>

\* StopGet with the Error arm replying 409 like the other rejections
StopGet_error(c, id) ==
    /\ req[c].pc = "idle"
    /\ LET name == deployment_name(id)
           q == Issued(Begin("stop", id),
                       Call("get", "deployment", name, Exists(deployments, name)))
       IN  req' = [req EXCEPT ![c] =
                IF ~Exists(deployments, name) THEN Reply(q, 404, "", None)
                ELSE LET deployment == deployments[name]
                         r == [q EXCEPT !.dep = Some(deployment)]
                         st == get_watcher_status(deployment)
                     IN  CASE st = "Ready" -> Reply(r, 409, "Watcher is already stopped", None)
                           [] st = "Updating" -> Reply(r, 409, "Watcher is updating", None)
                           [] st = "Running" ->
                                [r EXCEPT !.pc = "stop_scale"]
                           [] st = "Error" ->
                                Reply(r, 409, "Watcher in error state cannot be set to stopped", None)]
    /\ UNCHANGED <<deployments, config_maps, services, nextId, faults, probe, workervars>>

\* -------------------------------------------------------- stop_watcher
StopGet(c, id) ==
    /\ req[c].pc = "idle"
    /\ LET name == deployment_name(id)
           q == Issued(Begin("stop", id),
                       Call("get", "deployment", name, Exists(deployments, name)))
       IN  req' = [req EXCEPT ![c] =
                IF ~Exists(deployments, name) THEN Reply(q, 404, "", None)
                ELSE LET deployment == deployments[name]
                         r == [q EXCEPT !.dep = Some(deployment)]
                         st == get_watcher_status(deployment)
                     IN  CASE st = "Ready" -> Reply(r, 409, "Watcher is already stopped", None)
                           [] st = "Updating" -> Reply(r, 409, "Watcher is updating", None)
                           [] st = "Running" ->
                                [r EXCEPT !.pc = "stop_scale"]
                           [] st = "Error" ->
                                Reply(r, 406, "Watcher in error state cannot be set to stopped", None)]
    /\ UNCHANGED <<deployments, config_maps, services, nextId, faults, probe, workervars>>

\* patch_scale(replicas = 0).await.unwrap()
StopScale(c) ==
    /\ req[c].pc = "stop_scale"
    /\ LET name == Unwrap(req[c].dep).name
           r == Issued(req[c],
                       Call("patch_scale", "deployment", name, Exists(deployments, name)))
       IN  IF Exists(deployments, name)
           THEN /\ deployments' = PatchScale(deployments, name, 0)
                /\ req' = [req EXCEPT ![c] = [r EXCEPT !.pc = "stop_label"]]
           ELSE /\ req' = [req EXCEPT ![c] = Panic(r)]
                /\ UNCHANGED deployments
    /\ UNCHANGED <<config_maps, services, nextId, faults, probe, workervars>>

\* StopLabel without the label patch (the TODO left undone)
StopLabel_skip(c) ==
    /\ req[c].pc = "stop_label"
    /\ LET r == req[c]
       IN  req' = [req EXCEPT ![c] = Reply(r, 200, "Watcher is stopping", None)]
    /\ UNCHANGED <<deployments, config_maps, services, nextId, faults, probe, workervars>>

\* let _ = patch(target_status = Ready).await; reply 200
StopLabel(c) ==
    /\ req[c].pc = "stop_label"
    /\ LET name == Unwrap(req[c].dep).name
           r == Issued(req[c],
                       Call("patch", "deployment", name, Exists(deployments, name)))
       IN  /\ deployments' =
                IF Exists(deployments, name)
                THEN PatchTargetStatus(deployments, name, "Ready")
                ELSE deployments
           /\ req' = [req EXCEPT ![c] = Reply(r, 200, "Watcher is stopping", None)]
    /\ UNCHANGED <<config_maps, services, nextId, faults, probe, workervars>>

\* --------------------------------------------------------- get_watcher
GetDeployment(c, id) ==
    /\ req[c].pc = "idle"
    /\ LET name == deployment_name(id)
           r == Issued(Begin("get", id),
                       Call("get", "deployment", name, Exists(deployments, name)))
       IN  req' = [req EXCEPT ![c] =
                IF ~Exists(deployments, name) THEN Reply(r, 404, "", None)
                ELSE [r EXCEPT !.pc = "get_config", !.dep = Some(deployments[name])]]
    /\ UNCHANGED <<deployments, config_maps, services, nextId, faults, probe, workervars>>

\* GetConfigMap answering 200 with an empty body when the ConfigMap is missing
GetConfigMap_lenient(c) ==
    /\ req[c].pc = "get_config"
    /\ LET name == configmap_name(req[c].id)
           r == Issued(req[c],
                       Call("get", "configmap", name, Exists(config_maps, name)))
       IN  req' = [req EXCEPT ![c] =
                IF ~Exists(config_maps, name) THEN Reply(r, 200, "", None)
                ELSE LET w == Parse(config_maps[name].data.watcher_json)
                     IN  Reply(r, 200, "",
                               Some([w EXCEPT
                                        !.status = Some(get_watcher_status(Unwrap(r.dep))),
                                        !.ingest_ip = None]))]
    /\ UNCHANGED <<deployments, config_maps, services, nextId, faults, probe, workervars>>

\* get the ConfigMap, parse watcher.json, overlay the derived status
GetConfigMap(c) ==
    /\ req[c].pc = "get_config"
    /\ LET name == configmap_name(req[c].id)
           r == Issued(req[c],
                       Call("get", "configmap", name, Exists(config_maps, name)))
       IN  req' = [req EXCEPT ![c] =
                IF ~Exists(config_maps, name) THEN Reply(r, 404, "", None)
                ELSE LET w == Parse(config_maps[name].data.watcher_json)
                     IN  Reply(r, 200, "",
                               Some([w EXCEPT
                                        !.status = Some(get_watcher_status(Unwrap(r.dep))),
                                        !.ingest_ip = None]))]
    /\ UNCHANGED <<deployments, config_maps, services, nextId, faults, probe, workervars>>

\* DeleteDeployment giving up with 404 when the Deployment is already absent
DeleteDeployment_strict(c, id) ==
    /\ req[c].pc = "idle"
    /\ LET name == deployment_name(id)
           r == Issued(Begin("delete", id),
                       Call("delete", "deployment", name, Exists(deployments, name)))
       IN  /\ deployments' = Deleted(deployments, name)
           /\ req' = [req EXCEPT ![c] =
                IF Exists(deployments, name)
                THEN [r EXCEPT !.pc = "delete_config"]
                ELSE Reply(r, 404, "Watcher does not exist", None)]
    /\ UNCHANGED <<config_maps, services, nextId, faults, probe, workervars>>

\* ------------------------------------------------------ delete_watcher
\* let _ = deployments.delete(..).await
DeleteDeployment(c, id) ==
    /\ req[c].pc = "idle"
    /\ LET name == deployment_name(id)
           r == Issued(Begin("delete", id),
                       Call("delete", "deployment", name, Exists(deployments, name)))
       IN  /\ deployments' = Deleted(deployments, name)
           /\ req' = [req EXCEPT ![c] = [r EXCEPT !.pc = "delete_config"]]
    /\ UNCHANGED <<config_maps, services, nextId, faults, probe, workervars>>

\* let _ = config_maps.delete(..).await
DeleteConfigMap(c) ==
    /\ req[c].pc = "delete_config"
    /\ LET name == configmap_name(req[c].id)
           r == Issued(req[c],
                       Call("delete", "configmap", name, Exists(config_maps, name)))
       IN  /\ config_maps' = Deleted(config_maps, name)
           /\ req' = [req EXCEPT ![c] = [r EXCEPT !.pc = "delete_service"]]
    /\ UNCHANGED <<deployments, services, nextId, faults, probe, workervars>>

\* DeleteService replying 404 when any of the three deletes failed
DeleteService_any(c) ==
    /\ req[c].pc = "delete_service"
    /\ LET name == service_name(req[c].id)
           r == Issued(req[c],
                       Call("delete", "service", name, Exists(services, name)))
       IN  /\ services' = Deleted(services, name)
           /\ req' = [req EXCEPT ![c] =
                IF \A i \in 1..Len(r.calls) : r.calls[i].ok
                THEN Reply(r, 200, "Watcher has been deleted", None)
                ELSE Reply(r, 404, "Watcher does not exist", None)]
    /\ UNCHANGED <<deployments, config_maps, nextId, faults, probe, workervars>>

\* match services.delete(..).await: Ok -> 200, Err -> 404
DeleteService(c) ==
    /\ req[c].pc = "delete_service"
    /\ LET name == service_name(req[c].id)
           r == Issued(req[c],
                       Call("delete", "service", name, Exists(services, name)))
       IN  /\ services' = Deleted(services, name)
           /\ req' = [req EXCEPT ![c] =
                IF Exists(services, name)
                THEN Reply(r, 200, "Watcher has been deleted", None)
                ELSE Reply(r, 404, "Watcher does not exist", None)]
    /\ UNCHANGED <<deployments, config_maps, nextId, faults, probe, workervars>>

\* ------------------------------------------------------ create_watcher
\* the Watcher bodies a client posts (status and ingest_ip are server-derived)
WatcherInputs ==
    {[id |-> i, status |-> None, ingest_ip |-> None] : i \in {None} \cup {Some(x) : x \in Ids}}

\* CreateConfigMap keeping the id the request carried
CreateConfigMap_keepid(c, watcher) ==
    /\ req[c].pc = "idle"
    /\ nextId <= MaxIds
    /\ LET new_id == nextId
           w == [watcher EXCEPT !.id = IF @ = None THEN Some(new_id) ELSE @]
           config == build_configmap(new_id, Serialise(w))
           r == Issued([Begin("create", new_id) EXCEPT !.arg = Some(watcher), !.w = Some(w)],
                       Call("create", "configmap", config.name,
                            ~Exists(config_maps, config.name)))
       IN  IF ~Exists(config_maps, config.name)
           THEN /\ config_maps' = Created(config_maps, config)
                /\ req' = [req EXCEPT ![c] = [r EXCEPT !.pc = "create_deploy"]]
           ELSE /\ req' = [req EXCEPT ![c] = Panic(r)]
                /\ UNCHANGED config_maps
    /\ nextId' = nextId + 1
    /\ UNCHANGED <<deployments, services, faults, probe, workervars>>

\* new_id = Uuid::new_v4(); watcher.id = Some(new_id); 1. create the ConfigMap
CreateConfigMap(c, watcher) ==
    /\ req[c].pc = "idle"
    /\ nextId <= MaxIds
    /\ LET new_id == nextId
           w == [watcher EXCEPT !.id = Some(new_id)]
           config == build_configmap(new_id, Serialise(w))
           r == Issued([Begin("create", new_id) EXCEPT !.arg = Some(watcher), !.w = Some(w)],
                       Call("create", "configmap", config.name,
                            ~Exists(config_maps, config.name)))
       IN  IF ~Exists(config_maps, config.name)
           THEN /\ config_maps' = Created(config_maps, config)
                /\ req' = [req EXCEPT ![c] = [r EXCEPT !.pc = "create_deploy"]]
           ELSE /\ req' = [req EXCEPT ![c] = Panic(r)]
                /\ UNCHANGED config_maps
    /\ nextId' = nextId + 1
    /\ UNCHANGED <<deployments, services, faults, probe, workervars>>

\* 2. create the Deployment with replicas = 0 and target_status = Ready
CreateDeployment(c) ==
    /\ req[c].pc = "create_deploy"
    /\ LET deploy == build_deployment(req[c].id)
           r == Issued(req[c],
                       Call("create", "deployment", deploy.name,
                            ~Exists(deployments, deploy.name)))
       IN  IF ~Exists(deployments, deploy.name)
           THEN /\ deployments' = Created(deployments, deploy)
                /\ req' = [req EXCEPT ![c] = [r EXCEPT !.pc = "create_service"]]
           ELSE /\ req' = [req EXCEPT ![c] = Panic(r)]
                /\ UNCHANGED deployments
    /\ UNCHANGED <<config_maps, services, nextId, faults, probe, workervars>>

\* 3. create the Service; reply 201 with status = Updating, ingest_ip = None
CreateService(c) ==
    /\ req[c].pc = "create_service"
    /\ LET svc == build_service(req[c].id)
           r == Issued(req[c],
                       Call("create", "service", svc.name, ~Exists(services, svc.name)))
           watcher == Unwrap(r.w)
       IN  IF ~Exists(services, svc.name)
           THEN /\ services' = Created(services, svc)
                /\ req' = [req EXCEPT ![c] =
                      Reply(r, 201, "",
                            Some([watcher EXCEPT !.status = Some("Updating"),
                                                 !.ingest_ip = None]))]
           ELSE /\ req' = [req EXCEPT ![c] = Panic(r)]
                /\ UNCHANGED services
    /\ UNCHANGED <<deployments, config_maps, nextId, faults, probe, workervars>>

\* 1. with the orchestrator answering the create with an error: unwrap panics
CreateConfigMapFails(c, watcher) ==
    /\ req[c].pc = "idle"
    /\ nextId <= MaxIds
    /\ LET new_id == nextId
           w == [watcher EXCEPT !.id = Some(new_id)]
           r == Issued([Begin("create", new_id) EXCEPT !.arg = Some(watcher), !.w = Some(w)],
                       Call("create", "configmap", configmap_name(new_id), FALSE))
       IN  req' = [req EXCEPT ![c] = Panic(r)]
    /\ nextId' = nextId + 1
    /\ UNCHANGED <<deployments, config_maps, services, faults, probe, workervars>>

\* 2. or 3. with the orchestrator answering the create with an error: unwrap
\* panics, and what was created before stays
CreateFails(c) ==
    /\ req[c].pc \in {"create_deploy", "create_service"}
    /\ LET call == IF req[c].pc = "create_deploy"
                   THEN Call("create", "deployment", deployment_name(req[c].id), FALSE)
                   ELSE Call("create", "service", service_name(req[c].id), FALSE)
       IN  req' = [req EXCEPT ![c] = Panic(Issued(req[c], call))]
    /\ UNCHANGED <<deployments, config_maps, services, nextId, faults, probe, workervars>>

\* the client takes the reply (or sees the connection dropped)
Return(c) ==
    /\ req[c].pc \in {"done", "panicked"}
    /\ req' = [d \in Clients |->
                IF d = c THEN Idle ELSE [req[d] EXCEPT !.peers = @ \ {c}]]
    /\ UNCHANGED <<deployments, config_maps, services, nextId, faults, probe, workervars>>

\* ------------------------------------------------------- environment
\* The orchestrator's controller reports the observed state of a Deployment:
\* available_replicas follows spec.replicas (the field is omitted when none is available).
Observed(replicas) ==
    IF replicas > 0
    THEN [available_replicas |-> Some(replicas)]
    ELSE [available_replicas |-> None]

Reconcile(name) ==
    /\ Exists(deployments, name)
    /\ LET d == deployments[name]
       IN  /\ IF d.status = None THEN TRUE
              ELSE UnwrapOr(Unwrap(d.status).available_replicas, 0) # d.replicas
           /\ deployments' = [deployments EXCEPT ![name].status = Some(Observed(d.replicas))]
    /\ UNCHANGED <<config_maps, services, req, nextId, faults, probe, workervars>>

\* Creates from every client, each create RPC answered Ok or with an error
\* (the API server unavailable, a quota or an admission rule), and Get on
\* what they leave.
CreateNext ==
    \/ \E c \in Clients, w \in WatcherInputs : CreateConfigMap(c, w)
    \/ \E c \in Clients : CreateDeployment(c)
    \/ \E c \in Clients : CreateService(c)
    \/ \E c \in Clients, w \in WatcherInputs : CreateConfigMapFails(c, w)
    \/ \E c \in Clients : CreateFails(c)
    \/ \E c \in Clients, id \in Ids : GetDeployment(c, id)
    \/ \E c \in Clients : GetConfigMap(c)
    \/ \E c \in Clients : Return(c)
    \/ \E id \in Ids : Reconcile(deployment_name(id))

CreateSpec == Init /\ [][CreateNext]_vars

\* An operator removes one object of a watcher out of band.
OperatorDelete(kind, id) ==
    /\ faults < MaxFaults
    /\ faults' = faults + 1
    /\ CASE kind = "deployment" ->
              /\ Exists(deployments, deployment_name(id))
              /\ deployments' = Deleted(deployments, deployment_name(id))
              /\ UNCHANGED <<config_maps, services>>
         [] kind = "configmap" ->
              /\ Exists(config_maps, configmap_name(id))
              /\ config_maps' = Deleted(config_maps, configmap_name(id))
              /\ UNCHANGED <<deployments, services>>
         [] kind = "service" ->
              /\ Exists(services, service_name(id))
              /\ services' = Deleted(services, service_name(id))
              /\ UNCHANGED <<deployments, config_maps>>
    /\ UNCHANGED <<req, nextId, probe, workervars>>

\* An operator loses the target_status label: removes it or overwrites it
\* with a value that is no Status.
LostLabels(labels) ==
    {[k \in DOMAIN labels \ {"target_status"} |-> labels[k]],
     MapPut(labels, "target_status", "paused")}

OperatorRelabel(id) ==
    /\ faults < MaxFaults
    /\ faults' = faults + 1
    /\ Exists(deployments, deployment_name(id))
    /\ LET name == deployment_name(id)
           labels == Unwrap(deployments[name].labels)
       IN  /\ "target_status" \in DOMAIN labels
           /\ ParseStatus(labels["target_status"]) # None
           /\ \E l \in LostLabels(labels) :
                deployments' = [deployments EXCEPT ![name].labels = Some(l)]
    /\ UNCHANGED <<config_maps, services, req, nextId, probe, workervars>>

\* ------------------------------------------------------ specification
\* One client issues its requests one after the other; the controller runs at
\* any time, the operator between requests.
Next ==
    \/ \E c \in Serial, id \in Ids : Quiet /\ StartGet(c, id)
    \/ \E c \in Serial : StartScale(c)
    \/ \E c \in Serial : StartLabel(c)
    \/ \E c \in Serial, id \in Ids : Quiet /\ StopGet(c, id)
    \/ \E c \in Serial : StopScale(c)
    \/ \E c \in Serial : StopLabel(c)
    \/ \E c \in Serial, id \in Ids : Quiet /\ GetDeployment(c, id)
    \/ \E c \in Serial : GetConfigMap(c)
    \/ \E c \in Serial, id \in Ids : Quiet /\ DeleteDeployment(c, id)
    \/ \E c \in Serial : DeleteConfigMap(c)
    \/ \E c \in Serial : DeleteService(c)
    \/ \E c \in Serial, w \in WatcherInputs : Quiet /\ CreateConfigMap(c, w)
    \/ \E c \in Serial : CreateDeployment(c)
    \/ \E c \in Serial : CreateService(c)
    \/ \E c \in Serial : Return(c)
    \/ \E id \in Ids : Reconcile(deployment_name(id))
    \/ \E id \in Ids, kind \in {"deployment", "configmap", "service"} :
            Quiet /\ OperatorDelete(kind, id)
    \/ \E id \in Ids : Quiet /\ OperatorRelabel(id)

Spec == Init /\ [][Next]_vars

\* The same client and controller with nobody editing the namespace out of
\* band; the controller does not postpone a pending report for ever.
LiveNext ==
    \/ \E c \in Serial, id \in Ids : Quiet /\ StartGet(c, id)
    \/ \E c \in Serial : StartScale(c)
    \/ \E c \in Serial : StartLabel(c)
    \/ \E c \in Serial, id \in Ids : Quiet /\ StopGet(c, id)
    \/ \E c \in Serial : StopScale(c)
    \/ \E c \in Serial : StopLabel(c)
    \/ \E c \in Serial, id \in Ids : Quiet /\ GetDeployment(c, id)
    \/ \E c \in Serial : GetConfigMap(c)
    \/ \E c \in Serial, id \in Ids : Quiet /\ DeleteDeployment(c, id)
    \/ \E c \in Serial : DeleteConfigMap(c)
    \/ \E c \in Serial : DeleteService(c)
    \/ \E c \in Serial, w \in WatcherInputs : Quiet /\ CreateConfigMap(c, w)
    \/ \E c \in Serial : CreateDeployment(c)
    \/ \E c \in Serial : CreateService(c)
    \/ \E c \in Serial : Return(c)
    \/ \E id \in Ids : Reconcile(deployment_name(id))

LiveSpec ==
    /\ Init
    /\ [][LiveNext]_vars
    /\ \A id \in Ids : WF_vars(Reconcile(deployment_name(id)))

\* Every client may have a request in flight: warp runs each handler as a
\* task of its own and the handlers share nothing but the orchestrator.
\* Start, Stop, Get and Delete race on a watcher that already exists.
ConcNext ==
    \/ \E c \in Clients, id \in Ids : StartGet(c, id)
    \/ \E c \in Clients : StartScale(c)
    \/ \E c \in Clients : StartLabel(c)
    \/ \E c \in Clients, id \in Ids : StopGet(c, id)
    \/ \E c \in Clients : StopScale(c)
    \/ \E c \in Clients : StopLabel(c)
    \/ \E c \in Clients, id \in Ids : GetDeployment(c, id)
    \/ \E c \in Clients : GetConfigMap(c)
    \/ \E c \in Clients, id \in Ids : DeleteDeployment(c, id)
    \/ \E c \in Clients : DeleteConfigMap(c)
    \/ \E c \in Clients : DeleteService(c)
    \/ \E c \in Clients : Return(c)
    \/ \E id \in Ids : Reconcile(deployment_name(id))

\* the namespace after the first Create has replied and was taken
ConcInit ==
    /\ deployments = Created(<<>>, build_deployment(1))
    /\ config_maps =
          Created(<<>>, build_configmap(1, Serialise([id |-> Some(1), status |-> None,
                                                      ingest_ip |-> None])))
    /\ services = Created(<<>>, build_service(1))
    /\ req = [c \in Clients |-> Idle]
    /\ nextId = 2
    /\ faults = 0
    /\ probe = [phase |-> "off", labels |-> None, status |-> None, result |-> "Error"]
    /\ WorkerOff

ConcSpec == ConcInit /\ [][ConcNext]_vars

\* no client has a request op on watcher id in its handler or its reply to
\* it at hand
NoneShown(op, id) == \A c \in Clients : ~(req[c].op = op /\ req[c].id = id)

\* Start and Stop from every client on a watcher that exists, no Stop of a
\* watcher arriving during a Start of it or while a client still holds a
\* Start's reply, and no Start during or after a Stop likewise; no Delete.
\* Requests of one kind overlap freely.
RepeatNext ==
    \/ \E c \in Clients, id \in Ids : NoneShown("stop", id) /\ StartGet(c, id)
    \/ \E c \in Clients : StartScale(c)
    \/ \E c \in Clients : StartLabel(c)
    \/ \E c \in Clients, id \in Ids : NoneShown("start", id) /\ StopGet(c, id)
    \/ \E c \in Clients : StopScale(c)
    \/ \E c \in Clients : StopLabel(c)
    \/ \E c \in Clients : Return(c)
    \/ \E id \in Ids : Reconcile(deployment_name(id))

RepeatSpec == ConcInit /\ [][RepeatNext]_vars

\* ------------------------------------------------------ list_watchers
\* ListParams::default().labels("app=hawkeye,watcher_id")
Selected(obj) ==
    /\ obj.labels # None
    /\ LET labels == Unwrap(obj.labels)
       IN  /\ "app" \in DOMAIN labels
           /\ labels["app"] = "hawkeye"
           /\ "watcher_id" \in DOMAIN labels

\* Api::list(&lp): the selected objects of a collection, in name order
Listed(coll, names) ==
    LET Hit(n) == Exists(coll, n) /\ Selected(coll[n])
    IN  [k \in 1..Len(SelectSeq(names, Hit)) |-> coll[SelectSeq(names, Hit)[k]]]

DeploymentNames == [i \in 1..MaxIds |-> deployment_name(i)]
ConfigMapNames == [i \in 1..MaxIds |-> configmap_name(i)]

\* deployments_index: watcher_id label -> get_watcher_status of the Deployment
DeploymentsIndex(items) ==
    LET ids == {Unwrap(items[k].labels)["watcher_id"] : k \in 1..Len(items)}
        Last(id) == CHOOSE k \in 1..Len(items) :
                        /\ Unwrap(items[k].labels)["watcher_id"] = id
                        /\ \A j \in k + 1..Len(items) :
                                Unwrap(items[j].labels)["watcher_id"] # id
    IN  [id \in ids |-> get_watcher_status(items[Last(id)])]

\* list the Deployments and index their status by watcher_id
ListDeployments(c) ==
    /\ req[c].pc = "idle"
    /\ LET r == Issued(Begin("list", 0), Call("list", "deployment", <<>>, TRUE))
       IN  req' = [req EXCEPT ![c] =
                [r EXCEPT !.pc = "list_config",
                          !.index = DeploymentsIndex(Listed(deployments, DeploymentNames))]]
    /\ UNCHANGED <<deployments, config_maps, services, nextId, faults, probe, workervars>>

\* the watcher of one ConfigMap with the status the index has for its id
Joined(config, index, missing) ==
    LET w == Parse(config.data.watcher_json)
        key == UnwrapOr(w.id, "undefined")
    IN  [w EXCEPT !.status = Some(IF key \in DOMAIN index THEN index[key] ELSE missing),
                  !.ingest_ip = None]

\* ListConfigMaps taking a watcher without workload for Ready
ListConfigMaps_ready(c) ==
    /\ req[c].pc = "list_config"
    /\ LET r == Issued(req[c], Call("list", "configmap", <<>>, TRUE))
           items == Listed(config_maps, ConfigMapNames)
       IN  req' = [req EXCEPT ![c] =
                Reply(r, 200, "",
                      Some([k \in 1..Len(items) |-> Joined(items[k], r.index, "Ready")]))]
    /\ UNCHANGED <<deployments, config_maps, services, nextId, faults, probe, workervars>>

\* list the ConfigMaps, parse each watcher.json, overlay the indexed status
\* (Error when the index has none), reply with the watchers
ListConfigMaps(c) ==
    /\ req[c].pc = "list_config"
    /\ LET r == Issued(req[c], Call("list", "configmap", <<>>, TRUE))
           items == Listed(config_maps, ConfigMapNames)
       IN  req' = [req EXCEPT ![c] =
                Reply(r, 200, "",
                      Some([k \in 1..Len(items) |-> Joined(items[k], r.index, "Error")]))]
    /\ UNCHANGED <<deployments, config_maps, services, nextId, faults, probe, workervars>>

\* An operator strips the labels off a watcher's ConfigMap.
OperatorUnlabel(id) ==
    /\ faults < MaxFaults
    /\ faults' = faults + 1
    /\ Exists(config_maps, configmap_name(id))
    /\ config_maps[configmap_name(id)].labels # None
    /\ config_maps' = [config_maps EXCEPT ![configmap_name(id)].labels = None]
    /\ UNCHANGED <<deployments, services, req, nextId, probe, workervars>>

\* the addresses a load balancer may report for a Service
Addresses ==
    {[hostname |-> Some("lb.example"), ip |-> None],
     [hostname |-> None, ip |-> Some("10.0.0.1")]}

\* The orchestrator assigns the Service of a watcher its load-balancer address.
Provision(id) ==
    /\ Exists(services, service_name(id))
    /\ services[service_name(id)].ingress = <<>>
    /\ \E a \in Addresses :
            services' = [services EXCEPT ![service_name(id)].ingress = <<a>>]
    /\ UNCHANGED <<deployments, config_maps, req, nextId, faults, probe, workervars>>

\* list_watchers next to the routes that create and start watchers, one
\* request at a time, with the controller and the operator at work.
ListNext ==
    \/ \E c \in Serial, id \in Ids : Quiet /\ StartGet(c, id)
    \/ \E c \in Serial : StartScale(c)
    \/ \E c \in Serial : StartLabel(c)
    \/ \E c \in Serial : Quiet /\ ListDeployments(c)
    \/ \E c \in Serial : ListConfigMaps(c)
    \/ \E c \in Serial, w \in WatcherInputs : Quiet /\ CreateConfigMap(c, w)
    \/ \E c \in Serial : CreateDeployment(c)
    \/ \E c \in Serial : CreateService(c)
    \/ \E c \in Serial : Return(c)
    \/ \E id \in Ids : Reconcile(deployment_name(id))
    \/ \E id \in Ids, kind \in {"deployment", "configmap", "service"} :
            Quiet /\ OperatorDelete(kind, id)
    \/ \E id \in Ids : Quiet /\ OperatorUnlabel(id)

ListSpec == Init /\ [][ListNext]_vars

\* get_watcher next to create and start, with the orchestrator reporting the
\* workloads' state and the services' addresses.
IngressNext ==
    \/ \E c \in Serial, id \in Ids : Quiet /\ StartGet(c, id)
    \/ \E c \in Serial : StartScale(c)
    \/ \E c \in Serial : StartLabel(c)
    \/ \E c \in Serial, id \in Ids : Quiet /\ GetDeployment(c, id)
    \/ \E c \in Serial : GetConfigMap(c)
    \/ \E c \in Serial, w \in WatcherInputs : Quiet /\ CreateConfigMap(c, w)
    \/ \E c \in Serial : CreateDeployment(c)
    \/ \E c \in Serial : CreateService(c)
    \/ \E c \in Serial : Return(c)
    \/ \E id \in Ids : Reconcile(deployment_name(id))
    \/ \E id \in Ids : Provision(id)

IngressSpec == Init /\ [][IngressNext]_vars

\* ------------------------------------------- status derivation, directly
\* get_watcher_status applied to every shape of Deployment it can be handed.
ProbeLabelValues == {"ready", "running", "updating", "error", "Ready", "RUNNING", "paused", ""}

ProbeLabels ==
    {None, Some(WatcherLabels(1))}
        \cup {Some(MapPut(WatcherLabels(1), "target_status", v)) : v \in ProbeLabelValues}

ProbeStatuses ==
    {None, Some([available_replicas |-> None])}
        \cup {Some([available_replicas |-> Some(n)]) : n \in -1..MaxAvail}

StatusInit ==
    /\ deployments = <<>>
    /\ config_maps = <<>>
    /\ services = <<>>
    /\ req = [c \in Clients |-> Idle]
    /\ nextId = 1
    /\ faults = 0
    /\ probe \in [phase : {"in"}, labels : ProbeLabels, status : ProbeStatuses,
                  result : {"Error"}]
    /\ WorkerOff

Derive ==
    /\ probe.phase = "in"
    /\ probe' = [probe EXCEPT !.phase = "out",
                              !.result = get_watcher_status(
                                  [labels |-> probe.labels, status |-> probe.status])]
    /\ UNCHANGED <<deployments, config_maps, services, req, nextId, faults, workervars>>

StatusNext == Derive

StatusSpec == StatusInit /\ [][StatusNext]_vars

\* =====================================================================
\* The worker's actions runtime (actions.rs)
\* =====================================================================
MaxEvents == 4      \* events the pipeline puts on the channel
MaxTime == 12       \* seconds the clock is followed for
MaxExecutors == 2   \* executors registered with the runtime

\* Duration::from_secs(5) of allowed_to_run
Cooldown == 5

\* models::VideoMode
VideoModes == {"Slate", "Content"}

\* video_stream::Event
Terminate == [type |-> "Terminate"]
Mode(m) == [type |-> "Mode", mode |-> m]

\* struct Transition(VideoMode, VideoMode)
Transition(start, end) == <<start, end>>
Transitions == {Transition(a, b) : a \in VideoModes, b \in VideoModes}

\* ActionExecutor::new
ActionExecutor(transition) ==
    [transition |-> transition, last_mode |-> None, last_call |-> None]

\* Instant::elapsed
Elapsed(instant) == clock - instant

\* allowed_to_run comparing with >= instead of >
allowed_to_run_ge(self) ==
    IF self.last_call = None THEN TRUE
    ELSE Elapsed(Unwrap(self.last_call)) >= Cooldown

\* allowed_to_run refusing an executor that has never run
allowed_to_run_never(self) ==
    IF self.last_call = None THEN FALSE
    ELSE Elapsed(Unwrap(self.last_call)) > Cooldown

\* allowed_to_run with one cooldown shared by all executors of the runtime
allowed_to_run_global(self) ==
    \A i \in 1..Len(executors) :
        IF executors[i].last_call = None THEN TRUE
        ELSE Elapsed(Unwrap(executors[i].last_call)) > Cooldown

allowed_to_run(self) ==
    IF self.last_call = None THEN TRUE
    ELSE Elapsed(Unwrap(self.last_call)) > Cooldown

\* call_action looking at the new mode only
call_action_to(self, mode) ==
    IF self.last_mode = None THEN FALSE
    ELSE mode = self.transition[2] /\ allowed_to_run(self)

\* call_action taking an absent last_mode for the transition's start
call_action_first(self, mode) ==
    Transition(UnwrapOr(self.last_mode, self.transition[1]), mode) = self.transition
        /\ allowed_to_run(self)

\* call_action: TRUE when it returns Some(..), i.e. the action is executed
call_action(self, mode) ==
    IF self.last_mode = None THEN FALSE
    ELSE LET last_mode == Unwrap(self.last_mode)
         IN  Transition(last_mode, mode) = self.transition /\ allowed_to_run(self)

\* execute keeping last_mode as it was when the action ran
execute_keep(self, mode, result) ==
    [self EXCEPT
        !.last_call = IF result = Some("Ok") THEN Some(clock) ELSE @,
        !.last_mode = IF result = None THEN Some(mode) ELSE @]

\* execute forgetting the mode of an event whose action failed
execute_unless_err(self, mode, result) ==
    [self EXCEPT
        !.last_call = IF result = Some("Ok") THEN Some(clock) ELSE @,
        !.last_mode = IF result = Some("Err") THEN @ ELSE Some(mode)]

\* execute starting the cooldown on a failed call as well
execute_any(self, mode, result) ==
    [self EXCEPT
        !.last_call = IF result # None THEN Some(clock) ELSE @,
        !.last_mode = Some(mode)]

\* execute, given what call_action returned: None, Some(Ok) or Some(Err)
execute(self, mode, result) ==
    [self EXCEPT
        !.last_call = IF result = Some("Ok") THEN Some(clock) ELSE @,
        !.last_mode = Some(mode)]

\* impl From<models::Transition> for Vec<ActionExecutor>, per transition of
\* the watcher: the executors the runtime is handed, in registration order
ExecutorLists(n) == [1..n -> {ActionExecutor(t) : t \in Transitions}]

\* Runtime::new(receiver, processors) with one of the given executor lists
RuntimeNew(lists) ==
    /\ deployments = <<>>
    /\ config_maps = <<>>
    /\ services = <<>>
    /\ req = [c \in Clients |-> Idle]
    /\ nextId = 1
    /\ faults = 0
    /\ probe = [phase |-> "off", labels |-> None, status |-> None, result |-> "Error"]
    /\ executors \in lists
    /\ channel = <<>>
    /\ sender = "open"
    /\ rt = [pc |-> "recv", mode |-> None, i |-> 0]
    /\ clock = 0
    /\ sent = <<>>
    /\ seen = [i \in 1..Len(executors) |-> [modes |-> <<>>, at |-> 0]]
    /\ invoked = [i \in 1..Len(executors) |-> <<>>]
    /\ LoopOff

apivars == <<deployments, config_maps, services, req, nextId, faults, probe>>

\* action_sink.send(Event::Mode(..)) by the pipeline's new-sample callback
Send(mode) ==
    /\ sender = "open"
    /\ Len(sent) < MaxEvents
    /\ channel' = Append(channel, Mode(mode))
    /\ sent' = Append(sent, Mode(mode))
    /\ UNCHANGED <<apivars, loopvars, executors, sender, rt, clock, seen, invoked>>

\* action_sink.send(Event::Terminate) by main_loop, once
SendTerminate ==
    /\ sender = "open"
    /\ Len(sent) < MaxEvents
    /\ \A k \in 1..Len(sent) : sent[k] # Terminate
    /\ channel' = Append(channel, Terminate)
    /\ sent' = Append(sent, Terminate)
    /\ UNCHANGED <<apivars, loopvars, executors, sender, rt, clock, seen, invoked>>

\* the last Sender is dropped
Hangup ==
    /\ sender = "open"
    /\ sender' = "dropped"
    /\ UNCHANGED <<apivars, loopvars, executors, channel, rt, clock, sent, seen, invoked>>

\* the position after executor i is done with the current event
AfterExecutor(i) ==
    IF i < Len(executors)
    THEN [pc |-> "exec", mode |-> rt.mode, i |-> i + 1]
    ELSE [pc |-> "recv", mode |-> None, i |-> 0]

\* Recv going on with the loop after Terminate
Recv_continue ==
    /\ rt.pc = "recv"
    /\ channel # <<>>
    /\ LET event == Head(channel)
       IN  rt' = IF event = Terminate
                 THEN [pc |-> "recv", mode |-> None, i |-> 0]
                 ELSE [pc |-> "exec", mode |-> Some(event.mode), i |-> 1]
    /\ channel' = Tail(channel)
    /\ UNCHANGED <<apivars, loopvars, executors, sender, clock, sent, seen, invoked>>

\* Recv taking the newest event of the channel
Recv_newest ==
    /\ rt.pc = "recv"
    /\ channel # <<>>
    /\ LET event == channel[Len(channel)]
       IN  rt' = IF event = Terminate
                 THEN [pc |-> "stopped", mode |-> None, i |-> 0]
                 ELSE [pc |-> "exec", mode |-> Some(event.mode), i |-> 1]
    /\ channel' = SubSeq(channel, 1, Len(channel) - 1)
    /\ UNCHANGED <<apivars, loopvars, executors, sender, clock, sent, seen, invoked>>

\* self.receiver.recv()? yielding an event: Terminate breaks the loop, a
\* mode starts the pass over the executors
Recv ==
    /\ rt.pc = "recv"
    /\ channel # <<>>
    /\ LET event == Head(channel)
       IN  rt' = IF event = Terminate
                 THEN [pc |-> "stopped", mode |-> None, i |-> 0]
                 ELSE [pc |-> "exec", mode |-> Some(event.mode), i |-> 1]
    /\ channel' = Tail(channel)
    /\ UNCHANGED <<apivars, loopvars, executors, sender, clock, sent, seen, invoked>>

\* self.receiver.recv()? on an empty channel whose senders are gone
RecvErr ==
    /\ rt.pc = "recv"
    /\ channel = <<>>
    /\ sender = "dropped"
    /\ rt' = [pc |-> "failed", mode |-> None, i |-> 0]
    /\ UNCHANGED <<apivars, loopvars, executors, channel, sender, clock, sent, seen, invoked>>

\* p.execute(mode) up to the call of the action: either call_action returns
\* None and execute is over, or the action starts running
Execute ==
    /\ rt.pc = "exec"
    /\ LET i == rt.i
           self == executors[i]
           mode == Unwrap(rt.mode)
       IN  /\ seen' = [seen EXCEPT ![i] = [modes |-> Append(@.modes, mode), at |-> clock]]
           /\ IF call_action(self, mode)
              THEN /\ invoked' = [invoked EXCEPT ![i] =
                          Append(@, [n |-> Len(seen[i].modes) + 1, at |-> clock,
                                     result |-> "running", end |-> clock])]
                   /\ rt' = [rt EXCEPT !.pc = "action"]
                   /\ UNCHANGED executors
              ELSE /\ executors' = [executors EXCEPT ![i] = execute(self, mode, None)]
                   /\ rt' = AfterExecutor(i)
                   /\ UNCHANGED invoked
    /\ UNCHANGED <<apivars, loopvars, channel, sender, clock, sent>>

\* ActionReturns passing the action's error on with `?`, which ends the loop
ActionReturns_fatal(result) ==
    /\ rt.pc = "action"
    /\ LET i == rt.i
           self == executors[i]
           mode == Unwrap(rt.mode)
       IN  /\ executors' = [executors EXCEPT ![i] = execute(self, mode, Some(result))]
           /\ invoked' = [invoked EXCEPT ![i][Len(invoked[i])].result = result,
                                         ![i][Len(invoked[i])].end = clock]
           /\ rt' = IF result = "Err" THEN [pc |-> "failed", mode |-> None, i |-> 0]
                     ELSE AfterExecutor(i)
    /\ UNCHANGED <<apivars, loopvars, channel, sender, clock, sent, seen>>

\* self.action.execute() returns; execute records the call and the mode
ActionReturns(result) ==
    /\ rt.pc = "action"
    /\ LET i == rt.i
           self == executors[i]
           mode == Unwrap(rt.mode)
       IN  /\ executors' = [executors EXCEPT ![i] = execute(self, mode, Some(result))]
           /\ invoked' = [invoked EXCEPT ![i][Len(invoked[i])].result = result,
                                         ![i][Len(invoked[i])].end = clock]
           /\ rt' = AfterExecutor(i)
    /\ UNCHANGED <<apivars, loopvars, channel, sender, clock, sent, seen>>

\* the steps the clock is advanced by: the cooldown exactly, and a second more
Advances == {Cooldown, Cooldown + 1}

\* time passes
Tick(d) ==
    /\ clock + d <= MaxTime
    /\ clock' = clock + d
    /\ UNCHANGED <<apivars, loopvars, executors, channel, sender, rt, sent, seen, invoked>>

\* the runtime is waiting on an empty channel
Waiting == rt.pc = "recv" /\ channel = <<>>

\* One executor fed one mode at a time, as executor.execute(mode) is called
\* directly, with the clock free to advance at any point.
ExecInit == RuntimeNew(ExecutorLists(1))

ExecNext ==
    \/ \E mode \in VideoModes : Waiting /\ Send(mode)
    \/ Recv
    \/ Execute
    \/ \E result \in {"Ok", "Err"} : ActionReturns(result)
    \/ \E d \in Advances : Tick(d)

ExecSpec == ExecInit /\ [][ExecNext]_vars

\* The same with two executors registered.
PairInit == RuntimeNew(ExecutorLists(2))

PairSpec == PairInit /\ [][ExecNext]_vars

\* The runtime thread fed through the channel by the pipeline, which runs
\* ahead of it, terminates it, or goes away; the clock stands still.
RunInit == RuntimeNew(UNION {ExecutorLists(n) : n \in 1..MaxExecutors})

RunNext ==
    \/ \E mode \in VideoModes : Send(mode)
    \/ SendTerminate
    \/ Hangup
    \/ Recv
    \/ RecvErr
    \/ Execute
    \/ \E result \in {"Ok", "Err"} : ActionReturns(result)

RunSpec == RunInit /\ [][RunNext]_vars

\* =====================================================================
\* The HTTP call action (actions.rs, HttpCall::execute)
\* =====================================================================
\* what a request comes back with: the status of the response (a transport
\* failure is a response with an error status too) and whether its body can
\* be read into a string
Responses == [status : {200, 299, 300, 500}, readable : BOOLEAN]

\* ureq's Response::ok
ok(response) == response.status >= 200 /\ response.status <= 299

\* HttpCall::execute returning an error for a response that is not ok
HttpCall_execute_strict(response) ==
    [success |-> IF ok(response) THEN 1 ELSE 0,
     error |-> IF ok(response) THEN 0 ELSE 1,
     result |-> IF ok(response) /\ response.readable THEN "Ok" ELSE "Err"]

\* HttpCall::execute, given the response: the counter it increments and
\* what it returns; into_string()? is the only way out with an error
HttpCall_execute(response) ==
    [success |-> IF ok(response) THEN 1 ELSE 0,
     error |-> IF ok(response) THEN 0 ELSE 1,
     result |-> IF response.readable THEN "Ok" ELSE "Err"]

\* self.action.execute() of an HttpCall returns; execute records the call and
\* the mode
HttpReturns(response) ==
    /\ rt.pc = "action"
    /\ LET i == rt.i
           self == executors[i]
           mode == Unwrap(rt.mode)
           call == HttpCall_execute(response)
       IN  /\ executors' = [executors EXCEPT ![i] = execute(self, mode, Some(call.result))]
           /\ invoked' = [invoked EXCEPT ![i][Len(invoked[i])].result = call.result,
                                         ![i][Len(invoked[i])].end = clock]
           /\ metrics' = [metrics EXCEPT !.http_success = @ + call.success,
                                         !.http_error = @ + call.error,
                                         !.response = Some(response)]
           /\ rt' = AfterExecutor(i)
    /\ UNCHANGED <<apivars, channel, sender, clock, sent, seen,
                   running, pipeline, bus, main, callback, handler, cell, reader>>

\* One executor whose action is an HttpCall, fed one mode at a time, the
\* clock free to advance.
HttpNext ==
    \/ \E mode \in VideoModes : Waiting /\ Send(mode)
    \/ Recv
    \/ Execute
    \/ \E response \in Responses : HttpReturns(response)
    \/ \E d \in Advances : Tick(d)

HttpSpec == ExecInit /\ [][HttpNext]_vars

\* =====================================================================
\* The worker's main thread (hawkeye-worker/src/main.rs, video_stream.rs)
\* =====================================================================
MaxBus == 1         \* messages waiting on the bus at a time

\* gst::MessageView as main_loop matches on it; "Other" stands for every
\* message of the `_` arm
BusMessages == {"AsyncDone", "Eos", "Error", "Other"}

rtvars == <<executors, channel, sender, rt, clock, sent, seen, invoked>>

\* the Receiver lives in the runtime thread for as long as run_blocking runs
ReceiverAlive == rt.pc \notin {"stopped", "failed", "killed"}

\* main_loop has returned
Returned == main.pc \in {"returned", "exited"}

\* create_pipeline(..).and_then(|pipeline| main_loop(pipeline, running, sender))
CreatePipeline ==
    /\ main.pc = "off"
    /\ rt.pc # "off"
    /\ main' = [main EXCEPT !.pc = "start"]
    /\ UNCHANGED <<apivars, rtvars, running, pipeline, bus, callback, framevars>>

\* pipeline.set_state(gst::State::Paused)?
SetStatePaused ==
    /\ main.pc = "start"
    /\ pipeline' = "Paused"
    /\ main' = [main EXCEPT !.pc = "play"]
    /\ UNCHANGED <<apivars, rtvars, running, bus, callback, framevars>>

\* pipeline.set_state(gst::State::Playing)?
SetStatePlaying ==
    /\ main.pc = "play"
    /\ pipeline' = "Playing"
    /\ main' = [main EXCEPT !.pc = "while"]
    /\ UNCHANGED <<apivars, rtvars, running, bus, callback, framevars>>

\* the ctrlc handler: r.store(false, Ordering::SeqCst)
Signal ==
    /\ main.pc \notin {"off", "exited"}
    /\ running
    /\ running' = FALSE
    /\ UNCHANGED <<apivars, rtvars, pipeline, bus, main, callback, framevars>>

\* an element of the pipeline posts a message on the bus
Post(msg) ==
    /\ pipeline \in {"Paused", "Playing"}
    /\ Len(bus) < MaxBus
    /\ bus' = Append(bus, msg)
    /\ UNCHANGED <<apivars, rtvars, running, pipeline, main, callback, framevars>>

\* while running.load(Ordering::SeqCst)
CheckRunning ==
    /\ main.pc = "while"
    /\ main' = [main EXCEPT !.pc = IF running THEN "iter" ELSE "terminate"]
    /\ UNCHANGED <<apivars, rtvars, running, pipeline, bus, callback, framevars>>

\* bus.iter_timed(1 s) yields a message and the match on it runs: Eos clears
\* the flag and breaks, Error drives the pipeline to Null and returns the
\* error, every other message is ignored and the iteration goes on
PopMessage ==
    /\ main.pc = "iter"
    /\ bus # <<>>
    /\ bus' = Tail(bus)
    /\ LET msg == Head(bus)
       IN  CASE msg = "Eos" ->
                    /\ running' = FALSE
                    /\ main' = [main EXCEPT !.pc = "while"]
                    /\ UNCHANGED pipeline
             [] msg = "Error" ->
                    /\ pipeline' = "Null"
                    /\ main' = [pc |-> "returned", result |-> Some("Err")]
                    /\ UNCHANGED running
             [] OTHER ->
                    UNCHANGED <<running, pipeline, main>>
    /\ UNCHANGED <<apivars, rtvars, callback, framevars>>

\* bus.iter_timed(1 s) yields None: no message for a second, the for loop
\* ends and the while condition is evaluated again
PopTimeout ==
    /\ main.pc = "iter"
    /\ bus = <<>>
    /\ main' = [main EXCEPT !.pc = "while"]
    /\ UNCHANGED <<apivars, rtvars, running, pipeline, bus, callback, framevars>>

\* action_sink.send(Event::Terminate)? : Err once the receiver is gone
EmitTerminate ==
    /\ main.pc = "terminate"
    /\ IF ReceiverAlive
       THEN /\ channel' = Append(channel, Terminate)
            /\ sent' = Append(sent, Terminate)
            /\ main' = [main EXCEPT !.pc = "null"]
       ELSE /\ main' = [pc |-> "returned", result |-> Some("Err")]
            /\ UNCHANGED <<channel, sent>>
    /\ UNCHANGED <<apivars, executors, sender, rt, clock, seen, invoked,
                   running, pipeline, bus, callback, framevars>>

\* pipeline.set_state(gst::State::Null)?; Ok(())
SetStateNull ==
    /\ main.pc = "null"
    /\ pipeline' = "Null"
    /\ main' = [pc |-> "returned", result |-> Some("Ok")]
    /\ UNCHANGED <<apivars, rtvars, running, bus, callback, framevars>>

\* main returns and the process ends, the runtime thread with it
Exit ==
    /\ main.pc = "returned"
    /\ main' = [main EXCEPT !.pc = "exited"]
    /\ rt' = IF ReceiverAlive THEN [pc |-> "killed", mode |-> None, i |-> 0] ELSE rt
    /\ UNCHANGED <<apivars, executors, channel, sender, clock, sent, seen, invoked,
                   running, pipeline, bus, callback, framevars>>

\* the new-sample callback on a frame that is_match takes for the slate
\* (Slate) or not (Content): action_sink.send(Event::Mode(..)).unwrap()
Sample(mode) ==
    /\ pipeline = "Playing"
    /\ callback = "ok"
    /\ ReceiverAlive
    /\ Send(mode)

\* the same send when the receiver is gone: unwrap panics in the callback
SamplePanics ==
    /\ pipeline = "Playing"
    /\ callback = "ok"
    /\ ~ReceiverAlive
    /\ callback' = "panicked"
    /\ UNCHANGED <<apivars, rtvars, running, pipeline, bus, main, framevars>>

\* The worker process: the main thread in main_loop, the pipeline's
\* streaming thread and the runtime thread.
LoopInit == RuntimeNew(ExecutorLists(1))

LoopNext ==
    \/ CreatePipeline
    \/ SetStatePaused
    \/ SetStatePlaying
    \/ Signal
    \/ \E msg \in BusMessages : Post(msg)
    \/ CheckRunning
    \/ PopMessage
    \/ PopTimeout
    \/ EmitTerminate
    \/ SetStateNull
    \/ Exit
    \/ \E mode \in VideoModes : Sample(mode)
    \/ SamplePanics
    \/ Recv
    \/ Execute
    \/ \E result \in {"Ok", "Err"} : ActionReturns(result)

\* every thread that can take a step eventually takes it; nothing is assumed
\* of signals, of the bus's messages or of the samples
LoopFairness ==
    /\ WF_vars(CreatePipeline \/ SetStatePaused \/ SetStatePlaying \/ CheckRunning
                \/ PopMessage \/ PopTimeout \/ EmitTerminate \/ SetStateNull \/ Exit)
    /\ WF_vars(Recv \/ Execute \/ \E result \in {"Ok", "Err"} : ActionReturns(result))

LoopSpec == LoopInit /\ [][LoopNext]_vars /\ LoopFairness

\* =====================================================================
\* The watcher model (models.rs): validation and the JSON form
\* =====================================================================
MaxActions == 2     \* actions per transition

\* str::starts_with
starts_with(s, prefix) == Len(s) >= Len(prefix) /\ SubSeq(s, 1, Len(prefix)) = prefix

\* Source::is_valid with the ends of the range included
Source_is_valid_incl(self) ==
    self.ingest_port >= 1024 /\ self.ingest_port <= 60000

\* Source::is_valid: TRUE for Ok(()), FALSE for Err
Source_is_valid(self) ==
    self.ingest_port > 1024 /\ self.ingest_port < 60000

\* Watcher::is_valid: TRUE for Ok(()), FALSE for Err
Watcher_is_valid(self) ==
    IF \/ starts_with(self.slate_url, "http://")
       \/ starts_with(self.slate_url, "https://")
       \/ starts_with(self.slate_url, "file://")
    THEN Source_is_valid(self.source)
    ELSE FALSE

\* serde's names of the enum variants
StatusNames == [Running |-> "running", Ready |-> "ready", Error |-> "error"]
ContainerNames == [MpegTs |-> "mpeg-ts", Fmp4 |-> "fmp4"]
CodecNames == [H264 |-> "h264", H265 |-> "h265"]
ProtocolNames == [Rtp |-> "rtp"]
VideoModeNames == [Slate |-> "slate", Content |-> "content"]
HttpMethodNames ==
    [POST |-> "POST", GET |-> "GET", PUT |-> "PUT", PATCH |-> "PATCH", DELETE |-> "DELETE"]

\* the variants spelled without the hyphen of kebab-case
ContainerNames_lower == [MpegTs |-> "mpegts", Fmp4 |-> "fmp4"]

\* Deserialize of a unit variant: the variant of that name, if any
Variant(names, s) ==
    IF \E v \in DOMAIN names : names[v] = s
    THEN Some(CHOOSE v \in DOMAIN names : names[v] = s)
    ELSE None

Container_from_lower(s) == Variant(ContainerNames_lower, s)

Container_from(s) == Variant(ContainerNames, s)

\* a field under skip_serializing_none: left out when None
Skip(key, option) ==
    IF option = None THEN <<>> ELSE key :> Unwrap(option)

\* Serialize for HttpAuth (externally tagged, lowercase)
HttpAuth_to(a) == "basic" :> [username |-> a.username, password |-> a.password]

\* Serialize for Action::HttpCall (internally tagged: "type": "http_call")
Action_to(a) ==
    [type |-> "http_call", method |-> HttpMethodNames[a.method], url |-> a.url]
        @@ Skip("description", a.description)
        @@ Skip("authorization", {HttpAuth_to(auth) : auth \in a.authorization})
        @@ Skip("headers", a.headers)
        @@ Skip("body", a.body)
        @@ Skip("retries", a.retries)
        @@ Skip("timeout", a.timeout)

Transition_to(t) ==
    [from |-> VideoModeNames[t.from], to |-> VideoModeNames[t.to],
     actions |-> [k \in 1..Len(t.actions) |-> Action_to(t.actions[k])]]

Source_to(src) ==
    [ingest_port |-> src.ingest_port,
     container |-> ContainerNames[src.container],
     codec |-> CodecNames[src.codec],
     transport |-> [protocol |-> ProtocolNames[src.transport]]]

StatusName_of(st) == StatusNames[st]

\* serde_json::to_string(&watcher), as the JSON value it denotes
to_string(w) ==
    [slate_url |-> w.slate_url,
     source |-> Source_to(w.source),
     transitions |-> [k \in 1..Len(w.transitions) |-> Transition_to(w.transitions[k])]]
        @@ Skip("id", w.id)
        @@ Skip("description", w.description)
        @@ Skip("status", {StatusName_of(st) : st \in w.status})

\* an Option field of an object: None when the key is missing
Field(j, key) == IF key \in DOMAIN j THEN Some(j[key]) ELSE None

Has(j, keys) == keys \subseteq DOMAIN j

HttpAuth_ok(j) ==
    /\ DOMAIN j = {"basic"}
    /\ Has(j["basic"], {"username", "password"})

HttpAuth_from(j) ==
    [username |-> j["basic"]["username"], password |-> j["basic"]["password"]]

Action_ok(j) ==
    /\ Has(j, {"type", "method", "url"})
    /\ j["type"] = "http_call"
    /\ Variant(HttpMethodNames, j["method"]) # None
    /\ "authorization" \in DOMAIN j => HttpAuth_ok(j["authorization"])

Action_from(j) ==
    [method |-> Unwrap(Variant(HttpMethodNames, j["method"])),
     url |-> j["url"],
     description |-> Field(j, "description"),
     authorization |-> IF "authorization" \in DOMAIN j
                       THEN Some(HttpAuth_from(j["authorization"])) ELSE None,
     headers |-> Field(j, "headers"),
     body |-> Field(j, "body"),
     retries |-> Field(j, "retries"),
     timeout |-> Field(j, "timeout")]

Transition_ok(j) ==
    /\ Has(j, {"from", "to", "actions"})
    /\ Variant(VideoModeNames, j["from"]) # None
    /\ Variant(VideoModeNames, j["to"]) # None
    /\ \A k \in 1..Len(j["actions"]) : Action_ok(j["actions"][k])

Transition_from(j) ==
    [from |-> Unwrap(Variant(VideoModeNames, j["from"])),
     to |-> Unwrap(Variant(VideoModeNames, j["to"])),
     actions |-> [k \in 1..Len(j["actions"]) |-> Action_from(j["actions"][k])]]

Source_ok(j) ==
    /\ Has(j, {"ingest_port", "container", "codec", "transport"})
    /\ j["ingest_port"] >= 0    \* u32: a negative number is an error
    /\ Container_from(j["container"]) # None
    /\ Variant(CodecNames, j["codec"]) # None
    /\ Has(j["transport"], {"protocol"})
    /\ Variant(ProtocolNames, j["transport"]["protocol"]) # None

Source_from(j) ==
    [ingest_port |-> j["ingest_port"],
     container |-> Unwrap(Container_from(j["container"])),
     codec |-> Unwrap(Variant(CodecNames, j["codec"])),
     transport |-> Unwrap(Variant(ProtocolNames, j["transport"]["protocol"]))]

Watcher_ok(j) ==
    /\ Has(j, {"slate_url", "source", "transitions"})
    /\ Source_ok(j["source"])
    /\ \A k \in 1..Len(j["transitions"]) : Transition_ok(j["transitions"][k])
    /\ "status" \in DOMAIN j => Variant(StatusNames, j["status"]) # None

\* serde_json::from_str::<Watcher>: Some(watcher) for Ok, None for Err
from_str(j) ==
    IF ~Watcher_ok(j) THEN None
    ELSE Some([id |-> Field(j, "id"),
               description |-> Field(j, "description"),
               slate_url |-> j["slate_url"],
               status |-> IF "status" \in DOMAIN j
                          THEN Variant(StatusNames, j["status"]) ELSE None,
               source |-> Source_from(j["source"]),
               transitions |-> [k \in 1..Len(j["transitions"]) |->
                                    Transition_from(j["transitions"][k])]])

\* ------------------------------------------------------------ the inputs
SlateUrls ==
    {"http://s/slate.jpg", "https://s/slate.jpg", "file://./slate.jpg", "ftp://s/slate.jpg",
     "something else", "", "http:/s", "HTTP://s", "xhttp://s", "file:/"}

\* ingest_port: u32, up to the largest number the checker can hold
Ports == {0, 1000, 1023, 1024, 1025, 5000, 59999, 60000, 60001, 2147483647}

ActionUrls == {"http://h/ad-break", "h/ad-break"}

\* HttpCalls with none, all and some of the optional fields
HttpCalls ==
    UNION {{[method |-> "POST", url |-> u, description |-> None, authorization |-> None,
             headers |-> None, body |-> None, retries |-> None, timeout |-> None],
            [method |-> "DELETE", url |-> u, description |-> Some("dump out"),
             authorization |-> Some([username |-> "dev_user", password |-> "something"]),
             headers |-> Some([k \in {"Content-Type"} |-> "application/json"]),
             body |-> Some("{}"), retries |-> Some(3), timeout |-> Some(10)],
            [method |-> "GET", url |-> u, description |-> None, authorization |-> None,
             headers |-> Some(<<>>), body |-> None, retries |-> Some(0), timeout |-> None]}
           : u \in ActionUrls}

ActionLists == UNION {[1..n -> HttpCalls] : n \in 0..MaxActions}

TransitionLists ==
    LET back == [from |-> "Slate", to |-> "Content",
                 actions |-> <<CHOOSE a \in HttpCalls : a.method = "DELETE" /\ a.url = "http://h/ad-break">>]
        forth(as) == [from |-> "Content", to |-> "Slate", actions |-> as]
    IN  {<<>>} \cup {<<forth(as)>> : as \in ActionLists}
               \cup {<<forth(as), back>> : as \in ActionLists}

Sources(ports) ==
    [ingest_port : ports, container : DOMAIN ContainerNames, codec : DOMAIN CodecNames,
     transport : DOMAIN ProtocolNames]

\* every slate url with every port, and every shape of the optional fields
\* and of the transitions
Watchers ==
    [id : {Some("ee21fc9a")}, description : {None}, slate_url : SlateUrls, status : {None},
     source : [ingest_port : Ports, container : {"MpegTs"}, codec : {"H264"},
               transport : {"Rtp"}],
     transitions : {t \in TransitionLists : Len(t) <= 1 /\ \A k \in 1..Len(t) : Len(t[k].actions) <= 1}]
    \cup
    [id : {None, Some("ee21fc9a")}, description : {None, Some("Lyon vs. Bayern")},
     slate_url : {"file://./slate.jpg"},
     status : {None} \cup {Some(st) : st \in DOMAIN StatusNames},
     source : Sources({5000}),
     transitions : TransitionLists]

\* ------------------------------------------------------------ the steps
ModelInit ==
    /\ deployments = <<>>
    /\ config_maps = <<>>
    /\ services = <<>>
    /\ req = [c \in Clients |-> Idle]
    /\ nextId = 1
    /\ faults = 0
    /\ probe \in [phase : {"in"}, w : Watchers, valid : {FALSE}, json : {<<>>},
                  back : {None}, again : {<<>>}]
    /\ WorkerOff

notprobe == <<deployments, config_maps, services, req, nextId, faults, workervars>>

\* watcher.is_valid()
IsValid ==
    /\ probe.phase = "in"
    /\ probe' = [probe EXCEPT !.phase = "checked", !.valid = Watcher_is_valid(probe.w)]
    /\ UNCHANGED notprobe

\* serde_json::to_string(&watcher)
Serialize ==
    /\ probe.phase = "checked"
    /\ probe' = [probe EXCEPT !.phase = "written", !.json = to_string(probe.w)]
    /\ UNCHANGED notprobe

\* serde_json::from_str of what to_string gave
Deserialize ==
    /\ probe.phase = "written"
    /\ probe' = [probe EXCEPT !.phase = "read", !.back = from_str(probe.json)]
    /\ UNCHANGED notprobe

\* serde_json::to_string of the watcher read back
SerializeAgain ==
    /\ probe.phase = "read"
    /\ probe.back # None
    /\ probe' = [probe EXCEPT !.phase = "rewritten", !.again = to_string(Unwrap(probe.back))]
    /\ UNCHANGED notprobe

ModelNext ==
    \/ IsValid
    \/ Serialize
    \/ Deserialize
    \/ SerializeAgain

ModelSpec == ModelInit /\ [][ModelNext]_vars

\* =====================================================================
\* The slate detector (img_detector.rs)
\* =====================================================================
MaxScore == 9020    \* largest dissimilarity followed, in ten-thousandths

\* what Dssim::compare can return, in ten-thousandths: 0 for a frame equal to
\* the slate, more the more the frame differs
Scores == 0..MaxScore

\* (val * 1000f64) as u32, rounding to the nearest integer
Scaled_round(score) == (score + 5) \div 10

\* (val * 1000f64) as u32 of a score in ten-thousandths: the cast drops the
\* fraction
Scaled(score) == score \div 10

\* SlateDetector::is_match, given the score compare returned for the frame
is_match(score) == Scaled(score) <= 900

MatchInit ==
    /\ deployments = <<>>
    /\ config_maps = <<>>
    /\ services = <<>>
    /\ req = [c \in Clients |-> Idle]
    /\ nextId = 1
    /\ faults = 0
    /\ probe \in [phase : {"in"}, score : Scores, matched : {FALSE}]
    /\ WorkerOff

\* detector.is_match(frame)
IsMatch ==
    /\ probe.phase = "in"
    /\ "score" \in DOMAIN probe
    /\ probe' = [probe EXCEPT !.phase = "out", !.matched = is_match(probe.score)]
    /\ UNCHANGED notprobe

MatchNext == IsMatch

MatchSpec == MatchInit /\ [][MatchNext]_vars

\* =====================================================================
\* The new-sample callback and the latest frame (hawkeye-worker
\* video_stream.rs)
\* =====================================================================
MaxSamples == 2     \* samples the appsink delivers

\* the PNG bytes of the n-th sample, as two parts a reader copies one by one
Bytes(n) == <<n, n>>

\* the dissimilarity of a sample to the slate: either side of the threshold
SampleScores == {9009, 9010}

\* the process is running
Alive == main.pc # "exited"

\* the streaming thread delivers a sample and the callback runs up to the
\* write: pull_sample, get_buffer, map_readable, to_vec, detector.is_match
NewSample(score) ==
    /\ Alive
    /\ pipeline = "Playing"
    /\ callback = "ok"
    /\ handler.pc = "idle"
    /\ handler.n < MaxSamples
    /\ handler' = [pc |-> "write", n |-> handler.n + 1,
                   is_match |-> is_match(score), txn |-> None]
    /\ UNCHANGED <<apivars, rtvars, running, pipeline, bus, main, callback,
                   cell, reader, metrics>>

\* pull_sample, get_buffer or map_readable fails: the callback returns a
\* FlowError and the streaming thread delivers no more samples
ReadFails ==
    /\ Alive
    /\ pipeline = "Playing"
    /\ callback = "ok"
    /\ handler.pc = "idle"
    /\ callback' = "flow_error"
    /\ UNCHANGED <<apivars, rtvars, running, pipeline, bus, main, framevars>>

\* what LATEST_FRAME holds: the committed Option<Vec<u8>>
LatestFrame == IF cell.active = 0 THEN None ELSE Some(cell.frames[cell.active])

\* WriteTxn storing the new bytes in the committed buffer itself
WriteTxn_inplace ==
    /\ Alive
    /\ handler.pc = "write"
    /\ IF cell.active = 0
       THEN /\ cell' = [cell EXCEPT !.frames = Append(@, Bytes(handler.n))]
            /\ handler' = [handler EXCEPT !.pc = "commit",
                                          !.txn = Some(Len(cell.frames) + 1)]
       ELSE /\ cell' = [cell EXCEPT !.frames[cell.active] = Bytes(handler.n)]
            /\ handler' = [handler EXCEPT !.pc = "commit", !.txn = Some(cell.active)]
    /\ UNCHANGED <<apivars, rtvars, running, pipeline, bus, main, callback,
                   reader, metrics>>

\* let mut write_txn = LATEST_FRAME.write(); *write_txn = Some(local_buffer):
\* the bytes go to a buffer of the transaction's own
WriteTxn ==
    /\ Alive
    /\ handler.pc = "write"
    /\ cell' = [cell EXCEPT !.frames = Append(@, Bytes(handler.n))]
    /\ handler' = [handler EXCEPT !.pc = "commit", !.txn = Some(Len(cell.frames) + 1)]
    /\ UNCHANGED <<apivars, rtvars, running, pipeline, bus, main, callback,
                   reader, metrics>>

\* write_txn.commit(): the transaction's buffer becomes the committed one
Commit ==
    /\ Alive
    /\ handler.pc = "commit"
    /\ cell' = [cell EXCEPT !.active = Unwrap(handler.txn)]
    /\ handler' = [handler EXCEPT !.pc = "found", !.txn = None]
    /\ UNCHANGED <<apivars, rtvars, running, pipeline, bus, main, callback,
                   reader, metrics>>

\* FOUND_SLATE_COUNTER.inc() or FOUND_CONTENT_COUNTER.inc()
CountFound ==
    /\ Alive
    /\ handler.pc = "found"
    /\ metrics' = IF handler.is_match
                  THEN [metrics EXCEPT !.slate = @ + 1]
                  ELSE [metrics EXCEPT !.content = @ + 1]
    /\ handler' = [handler EXCEPT !.pc = "send"]
    /\ UNCHANGED <<apivars, rtvars, running, pipeline, bus, main, callback,
                   cell, reader>>

\* action_sink.send(Event::Mode(..)).unwrap(): the event is queued, or, the
\* receiver being gone, send returns Err and unwrap panics
SendMode ==
    /\ Alive
    /\ handler.pc = "send"
    /\ LET mode == IF handler.is_match THEN "Slate" ELSE "Content"
       IN  IF ReceiverAlive
           THEN /\ channel' = Append(channel, Mode(mode))
                /\ sent' = Append(sent, Mode(mode))
                /\ handler' = [handler EXCEPT !.pc = "similarity"]
                /\ UNCHANGED callback
           ELSE /\ handler' = [handler EXCEPT !.pc = "panicked"]
                /\ callback' = "panicked"
                /\ UNCHANGED <<channel, sent>>
    /\ UNCHANGED <<apivars, executors, sender, rt, clock, seen, invoked,
                   running, pipeline, bus, main, cell, reader, metrics>>

\* SIMILARITY_EXECUTION_COUNTER.inc(); Ok(gst::FlowSuccess::Ok)
CountSimilarity ==
    /\ Alive
    /\ handler.pc = "similarity"
    /\ metrics' = [metrics EXCEPT !.similarity = @ + 1]
    /\ handler' = [handler EXCEPT !.pc = "idle"]
    /\ UNCHANGED <<apivars, rtvars, running, pipeline, bus, main, callback,
                   cell, reader>>

\* the callback is not in the middle of a sample
HandlerAtRest == handler.pc \in {"idle", "panicked"}

\* a reader takes LATEST_FRAME.read(): a snapshot of the committed value
ReadBegin ==
    /\ Alive
    /\ main.pc # "off"
    /\ reader.pc \in {"idle", "done"}
    /\ reader' = [pc |-> "copy", snap |-> cell.active, copy |-> <<>>]
    /\ UNCHANGED <<apivars, rtvars, running, pipeline, bus, main, callback,
                   handler, cell, metrics>>

\* the reader copies the next part of the snapshot's bytes
ReadPart ==
    /\ Alive
    /\ reader.pc = "copy"
    /\ reader.snap # 0
    /\ Len(reader.copy) < Len(cell.frames[reader.snap])
    /\ reader' = [reader EXCEPT !.copy = Append(@, cell.frames[reader.snap][Len(@) + 1])]
    /\ UNCHANGED <<apivars, rtvars, running, pipeline, bus, main, callback,
                   handler, cell, metrics>>

\* the reader has all there is and drops the snapshot
ReadEnd ==
    /\ Alive
    /\ reader.pc = "copy"
    /\ reader.snap # 0 => Len(reader.copy) = Len(cell.frames[reader.snap])
    /\ reader' = [reader EXCEPT !.pc = "done"]
    /\ UNCHANGED <<apivars, rtvars, running, pipeline, bus, main, callback,
                   handler, cell, metrics>>

\* The worker with a quiet bus: main_loop up to its return, the callback
\* thread sample by sample, a reader of the latest frame and the runtime
\* thread. set_state(Null) returns when the streaming thread has left the
\* callback.
FrameInit == RuntimeNew(ExecutorLists(1))

FrameNext ==
    \/ CreatePipeline
    \/ SetStatePaused
    \/ SetStatePlaying
    \/ Signal
    \/ CheckRunning
    \/ PopTimeout
    \/ EmitTerminate
    \/ HandlerAtRest /\ SetStateNull
    \/ Exit
    \/ \E score \in SampleScores : NewSample(score)
    \/ ReadFails
    \/ WriteTxn
    \/ Commit
    \/ CountFound
    \/ SendMode
    \/ CountSimilarity
    \/ ReadBegin
    \/ ReadPart
    \/ ReadEnd
    \/ Recv
    \/ Execute
    \/ \E result \in {"Ok", "Err"} : ActionReturns(result)

FrameSpec == FrameInit /\ [][FrameNext]_vars

\* =====================================================================
\* Properties
\* =====================================================================

\* What a Deployment shows, read off the object itself.
HasObserved(d) == d.status # None

\* available_replicas > 0
ObservedUp(d) ==
    /\ HasObserved(d)
    /\ Unwrap(d.status).available_replicas # None
    /\ Unwrap(Unwrap(d.status).available_replicas) > 0

\* available_replicas = 0 or unset
ObservedDown(d) ==
    /\ HasObserved(d)
    /\ IF Unwrap(d.status).available_replicas = None THEN TRUE
       ELSE Unwrap(Unwrap(d.status).available_replicas) = 0

HasTarget(d) ==
    /\ d.labels # None
    /\ "target_status" \in DOMAIN Unwrap(d.labels)

TargetIs(d, label) ==
    /\ HasTarget(d)
    /\ Unwrap(d.labels)["target_status"] = label

\* the four rows of the derivation table that name a status other than Error
TableRunning(d) == ObservedUp(d) /\ TargetIs(d, "running")
TableReady(d) == ObservedDown(d) /\ TargetIs(d, "ready")
TablePending(d) ==
    \/ ObservedDown(d) /\ TargetIs(d, "running")
    \/ ObservedUp(d) /\ TargetIs(d, "ready")
TableError(d) == ~HasObserved(d) \/ ~(TargetIs(d, "ready") \/ TargetIs(d, "running"))

Probed == [labels |-> probe.labels, status |-> probe.status]

\* C1: with an observed status and a target_status label of ready or running,
\* get_watcher_status yields Running for (replicas > 0, running), Ready for
\* (replicas = 0 or unset, ready) and Updating (Pending) for the two mixed
\* cases; the result is fixed by these two inputs.
C1_StatusTable ==
    probe.phase = "out" =>
        /\ TableRunning(Probed) => probe.result = "Running"
        /\ TableReady(Probed) => probe.result = "Ready"
        /\ TablePending(Probed) => probe.result = "Updating"

C1_Witness ==
    /\ probe.phase = "out"
    /\ ObservedUp(Probed) /\ TargetIs(Probed, "ready")
    /\ probe.result = "Updating"

\* C2: get_watcher_status is total over observed x target and yields one of
\* the four statuses; without an observed status, or with the target_status
\* label missing or not naming Ready or Running, it yields Error.
C2_StatusTotalError ==
    probe.phase = "out" =>
        /\ probe.result \in {"Running", "Ready", "Updating", "Error"}
        /\ ~HasObserved(Probed) => probe.result = "Error"
        /\ ~HasTarget(Probed) => probe.result = "Error"
        /\ TableError(Probed) => probe.result = "Error"

C2_Witness ==
    /\ probe.phase = "out"
    /\ ObservedUp(Probed) /\ ~HasTarget(Probed)
    /\ probe.result = "Error"

\* ---------------------------------------------------------------------
\* Handlers.  A reply is read off the request record once pc = "done";
\* dep is the Deployment the handler fetched, calls the RPCs it issued.
Replied(r, op) == r.op = op /\ r.pc = "done"

DeployName(id) == <<"hawkeye-deploy-", id>>
ConfigName(id) == <<"hawkeye-config-", id>>
ServiceName(id) == <<"hawkeye-vid-svc-", id>>

Verbs(calls) == [i \in 1..Len(calls) |-> calls[i].verb]
Targets(calls) == [i \in 1..Len(calls) |-> <<calls[i].kind, calls[i].name>>]

C4_StartRejected ==
    \A c \in Clients :
        LET r == req[c]
            name == DeployName(r.id)
        IN  (Replied(r, "start") /\ r.dep # None) =>
                LET d == Unwrap(r.dep)
                IN  /\ (TableRunning(d) \/ TablePending(d)) => r.code = 409
                    /\ TableError(d) =>
                          /\ r.code = 406
                          /\ r.msg = "Watcher in error state cannot be set to running"
                    /\ ~TableReady(d) =>
                          /\ Verbs(r.calls) = <<"get">>
                          /\ name \in DOMAIN deployments
                          /\ deployments[name].replicas = d.replicas
                          /\ deployments[name].labels = d.labels

C4_Witness ==
    \E c \in Clients :
        /\ Replied(req[c], "start") /\ req[c].code = 406
        /\ req[c].dep # None /\ ~HasObserved(Unwrap(req[c].dep))

C6_StopRejected ==
    \A c \in Clients :
        LET r == req[c]
            name == DeployName(r.id)
        IN  (Replied(r, "stop") /\ r.dep # None) =>
                LET d == Unwrap(r.dep)
                IN  /\ (TableReady(d) \/ TablePending(d)) => r.code = 409
                    /\ TableError(d) => r.code = 406
                    /\ ~TableRunning(d) =>
                          /\ Verbs(r.calls) = <<"get">>
                          /\ name \in DOMAIN deployments
                          /\ deployments[name].replicas = d.replicas
                          /\ deployments[name].labels = d.labels

C6_Witness ==
    \E c \in Clients :
        /\ Replied(req[c], "stop") /\ req[c].code = 406
        /\ req[c].dep # None /\ HasObserved(Unwrap(req[c].dep))

\* C7: a watcher that does not exist yields 404 and no mutation: Get replies
\* 404 iff the workload or the config object of the id is missing, Start and
\* Stop reply 404 iff the workload is missing, and a request that replied 404
\* issued nothing but gets.
C7_NotFound ==
    \A c \in Clients :
        LET r == req[c]
        IN  /\ (Replied(r, "start") \/ Replied(r, "stop")) =>
                  (r.code = 404 <=> DeployName(r.id) \notin DOMAIN deployments)
            /\ Replied(r, "get") =>
                  (r.code = 404 <=> (\/ DeployName(r.id) \notin DOMAIN deployments
                                     \/ ConfigName(r.id) \notin DOMAIN config_maps))
            /\ (r.pc = "done" /\ r.op \in {"start", "stop", "get"} /\ r.code = 404) =>
                  /\ \A i \in 1..Len(r.calls) : r.calls[i].verb = "get"
                  /\ r.body = None

C7_Witness ==
    \E c \in Clients :
        /\ Replied(req[c], "get") /\ req[c].code = 404
        /\ DeployName(req[c].id) \in DOMAIN deployments
        /\ ConfigName(req[c].id) \notin DOMAIN config_maps

\* the three deletes of Delete(id), in the order they are issued
DeleteTargets(id) ==
    << <<"deployment", DeployName(id)>>,
       <<"configmap", ConfigName(id)>>,
       <<"service", ServiceName(id)>> >>

\* every object not named from id is left as it is by this step
OthersKept(id) ==
    /\ \A n \in DOMAIN deployments :
          n # DeployName(id) => (n \in DOMAIN deployments' /\ deployments'[n] = deployments[n])
    /\ \A n \in DOMAIN config_maps :
          n # ConfigName(id) => (n \in DOMAIN config_maps' /\ config_maps'[n] = config_maps[n])
    /\ \A n \in DOMAIN services :
          n # ServiceName(id) => (n \in DOMAIN services' /\ services'[n] = services[n])

C8_DeleteReplied ==
    \A c \in Clients :
        LET r == req[c]
        IN  r.op = "delete" =>
                /\ Len(r.calls) <= 3
                /\ Targets(r.calls) = SubSeq(DeleteTargets(r.id), 1, Len(r.calls))
                /\ \A i \in 1..Len(r.calls) : r.calls[i].verb = "delete"
                /\ r.pc = "done" =>
                      /\ Len(r.calls) = 3
                      /\ DeployName(r.id) \notin DOMAIN deployments
                      /\ ConfigName(r.id) \notin DOMAIN config_maps
                      /\ ServiceName(r.id) \notin DOMAIN services

C8_DeleteStep ==
    \A c \in Clients :
        (req'[c].op = "delete" /\ req'[c] # req[c]) => OthersKept(req'[c].id)

\* C8: Delete(id) issues the deletes of workload, config and ingress in that
\* order, all three whatever the first two find; once it has replied none of
\* hawkeye-deploy-<id>, hawkeye-config-<id>, hawkeye-vid-svc-<id> exists, and
\* no step of it removes or changes an object of another id.
C8_DeleteAll == []C8_DeleteReplied /\ [][C8_DeleteStep]_vars

C8_Witness ==
    \E c \in Clients :
        /\ Replied(req[c], "delete")
        /\ ~req[c].calls[1].ok
        /\ req[c].calls[3].ok
        /\ \E n \in DOMAIN deployments : n # DeployName(req[c].id)

\* C9: the reply of Delete(id) is decided by the ingress alone: 404 iff the
\* delete of the ingress found nothing, 200 otherwise, whatever the deletes
\* of the workload and the config found.
C9_DeleteReply ==
    \A c \in Clients :
        LET r == req[c]
        IN  Replied(r, "delete") =>
                /\ r.calls[3].kind = "service"
                /\ r.calls[3].ok =>
                      r.code = 200 /\ r.msg = "Watcher has been deleted"
                /\ ~r.calls[3].ok =>
                      r.code = 404 /\ r.msg = "Watcher does not exist"

C9_Witness ==
    \E c \in Clients :
        /\ Replied(req[c], "delete") /\ req[c].code = 404
        /\ req[c].calls[1].ok /\ req[c].calls[2].ok /\ ~req[c].calls[3].ok

C9_Witness200 ==
    \E c \in Clients :
        /\ Replied(req[c], "delete") /\ req[c].code = 200
        /\ ~req[c].calls[1].ok

\* the three creates of Create, in the order they are issued
CreateTargets(id) ==
    << <<"configmap", ConfigName(id)>>,
       <<"deployment", DeployName(id)>>,
       <<"service", ServiceName(id)>> >>

IdLabels(id) == [app |-> "hawkeye", watcher_id |-> id]

\* C10: Create assigns a fresh id, whatever id the request carried, and
\* creates the config object, the workload (replicas 0, target_status ready)
\* and the ingress in that order, named from the id and labelled
\* {app=hawkeye, watcher_id=<id>}; it replies 201 with that id, status
\* Updating (Pending) and no ingest_ip.
C10_Create ==
    \A c \in Clients :
        LET r == req[c]
        IN  r.op = "create" =>
                /\ Len(r.calls) <= 3
                /\ Targets(r.calls) = SubSeq(CreateTargets(r.id), 1, Len(r.calls))
                /\ \A i \in 1..Len(r.calls) : r.calls[i].verb = "create"
                /\ r.pc = "done" =>
                      /\ r.code = 201
                      /\ Len(r.calls) = 3
                      /\ \A i \in 1..3 : r.calls[i].ok
                      /\ ConfigName(r.id) \in DOMAIN config_maps
                      /\ config_maps[ConfigName(r.id)].labels = Some(IdLabels(r.id))
                      /\ DeployName(r.id) \in DOMAIN deployments
                      /\ deployments[DeployName(r.id)].replicas = 0
                      /\ deployments[DeployName(r.id)].labels =
                            Some([app |-> "hawkeye", watcher_id |-> r.id,
                                  target_status |-> "ready"])
                      /\ ServiceName(r.id) \in DOMAIN services
                      /\ services[ServiceName(r.id)].labels = Some(IdLabels(r.id))
                      /\ r.body # None
                      /\ Unwrap(r.body).id = Some(r.id)
                      /\ Unwrap(r.body).status = Some("Updating")
                      /\ Unwrap(r.body).ingest_ip = None

C10_Witness ==
    \E c \in Clients :
        /\ Replied(req[c], "create") /\ req[c].code = 201
        /\ Unwrap(req[c].arg).id # None
        /\ Unwrap(req[c].arg).id # Some(req[c].id)

\* a workload as create_watcher left it: no replica asked for, target_status
\* ready, and nothing reported by the orchestrator yet
FreshlyCreated(d) ==
    /\ d.replicas = 0
    /\ TargetIs(d, "ready")
    /\ ~HasObserved(d)

\* C11: a Get issued right after a successful Create, before any Start and
\* before the orchestrator has reported on the new workload, replies 200 with
\* status Updating (Pending).
C11_GetAfterCreate ==
    \A c \in Clients :
        LET r == req[c]
        IN  (Replied(r, "get") /\ r.code = 200 /\ FreshlyCreated(Unwrap(r.dep))) =>
                Unwrap(r.body).status = Some("Updating")

\* what a Get of id that fetched the workload now would derive
GetShows(id, row(_)) ==
    /\ DeployName(id) \in DOMAIN deployments
    /\ ConfigName(id) \in DOMAIN config_maps
    /\ row(deployments[DeployName(id)])

StartedOk(id) ==
    \E c \in Clients : Replied(req[c], "start") /\ req[c].id = id /\ req[c].code = 200

\* a Stop or a Delete of id has been issued
Interfering(id) ==
    \E c \in Clients : req[c].op \in {"stop", "delete"} /\ req[c].id = id

C12_Eventually ==
    \A id \in Ids : StartedOk(id) ~> (GetShows(id, TableRunning) \/ Interfering(id))

C12_Stays ==
    \A id \in Ids :
        (GetShows(id, TableRunning) /\ ~Interfering(id)') => GetShows(id, TableRunning)'

C12_GetReply ==
    \A c \in Clients :
        LET r == req[c]
        IN  (Replied(r, "get") /\ r.code = 200 /\ TableRunning(Unwrap(r.dep))) =>
                Unwrap(r.body).status = Some("Running")

Overlapped(c1, c2) == c1 # c2 /\ (c1 \in req[c2].peers \/ c2 \in req[c1].peers)

\* C13: concurrently in-flight Start/Stop/Delete requests on one watcher are
\* serialised; in particular two overlapping Start requests on one Ready
\* watcher do not both reply 200.
C13_StartsSerialised ==
    \A c1, c2 \in Clients :
        (/\ Overlapped(c1, c2)
         /\ Replied(req[c1], "start") /\ Replied(req[c2], "start")
         /\ req[c1].id = req[c2].id
         /\ TableReady(Unwrap(req[c1].dep)) /\ TableReady(Unwrap(req[c2].dep))) =>
            ~(req[c1].code = 200 /\ req[c2].code = 200)

\* ---------------------------------------------------------------------
\* Executors.  Read off the two logs: seen[i].modes, the modes executor i
\* was handed, and invoked[i], the calls of its action (n: on which of them).
From(i) == executors[i].transition[1]
To(i) == executors[i].transition[2]
Modes(i) == seen[i].modes
Executors == 1..Len(executors)
Calls(i) == 1..Len(invoked[i])

\* C14: an executor for (a -> b) invokes its action on an event only if the
\* event before it had mode a and this one has mode b, whatever the time
\* that has passed.
C14_TransitionSpecific ==
    \A i \in Executors : \A k \in Calls(i) :
        LET n == invoked[i][k].n
        IN  /\ n \in 2..Len(Modes(i))
            /\ Modes(i)[n - 1] = From(i)
            /\ Modes(i)[n] = To(i)

C14_Witness ==
    \E i \in Executors :
        /\ Len(invoked[i]) = 1
        /\ invoked[i][1].n = 3
        /\ Len(Modes(i)) = 4

\* C15: the first mode an executor is handed never invokes its action, for
\* any mode and any transition; it is only recorded as last_mode.
C15_FirstModeSilent ==
    \A i \in Executors :
        /\ Len(Modes(i)) = 0 => executors[i].last_mode = None
        /\ \A k \in Calls(i) : invoked[i][k].n # 1
        /\ Len(Modes(i)) = 1 =>
              /\ invoked[i] = <<>>
              /\ executors[i].last_mode = Some(Modes(i)[1])
              /\ executors[i].last_call = None

C15_Witness ==
    \E i \in Executors :
        /\ Modes(i) = <<To(i)>>
        /\ From(i) # To(i)
        /\ clock > Cooldown

\* C16: after a successful execution recorded at t0, the action of that
\* executor is not invoked on any event handled at a time up to and
\* including t0 + 5 s.
C16_Cooldown ==
    \A i \in Executors : \A j \in Calls(i), k \in Calls(i) :
        (j < k /\ invoked[i][j].result = "Ok") =>
            invoked[i][k].at > invoked[i][j].end + Cooldown

C16_Witness ==
    \E i \in Executors :
        /\ From(i) = "Content" /\ To(i) = "Slate"
        /\ Modes(i) = <<"Content", "Slate", "Content", "Slate">>
        /\ rt.pc = "recv"
        /\ Len(invoked[i]) = 1
        /\ invoked[i][1].result = "Ok"
        /\ seen[i].at = invoked[i][1].end + Cooldown

\* the times at which executor i recorded a successful execution
OkEnds(i) == {invoked[i][k].end : k \in {j \in Calls(i) : invoked[i][j].result = "Ok"}}

\* executor i has never executed successfully, or not within the last 5 s
Free(i) == \A t \in OkEnds(i) : clock - t > Cooldown

\* the event executor i is about to be handed completes its transition
Completes(i) ==
    /\ rt.pc = "exec" /\ rt.i = i
    /\ Modes(i) # <<>>
    /\ Modes(i)[Len(Modes(i))] = From(i)
    /\ rt.mode = Some(To(i))

Handed(i) == Len(seen'[i].modes) = Len(seen[i].modes) + 1
Invoked(i) == Len(invoked'[i]) = Len(invoked[i]) + 1

C17_Step ==
    \A i \in Executors : (Completes(i) /\ Free(i) /\ Handed(i)) => Invoked(i)

\* C17: an executor that has never executed successfully, or whose last
\* successful execution is more than 5 s old, invokes its action on the next
\* event that completes its transition.
C17_CooldownExpires == [][C17_Step]_vars

C17_Witness ==
    \E i \in Executors :
        /\ Modes(i) = <<"Content", "Slate", "Content", "Slate">>
        /\ Len(invoked[i]) = 2
        /\ invoked[i][1].result = "Ok"
        /\ invoked[i][2].at = invoked[i][1].end + 2 * Cooldown + 1

\* C18: for the executor (Content -> Slate), Content followed by any number
\* of Slate, at any times, invokes the action exactly once, on the first
\* Slate.
C18_RunFiresOnce ==
    \A i \in Executors :
        (/\ From(i) = "Content" /\ To(i) = "Slate"
         /\ Len(Modes(i)) >= 2
         /\ Modes(i)[1] = "Content"
         /\ \A n \in 2..Len(Modes(i)) : Modes(i)[n] = "Slate") =>
            /\ Len(invoked[i]) = 1
            /\ invoked[i][1].n = 2

C18_Witness ==
    \E i \in Executors :
        /\ From(i) = "Content" /\ To(i) = "Slate"
        /\ Modes(i) = <<"Content", "Slate", "Slate">>
        /\ Len(invoked[i]) = 1
        /\ invoked[i][1].result = "Ok"
        /\ seen[i].at > invoked[i][1].end + Cooldown
        /\ rt.pc = "recv"

C19_Step ==
    \A i \in Executors, j \in Executors :
        (i # j /\ ~Free(j) /\ Completes(i) /\ Free(i) /\ Handed(i)) => Invoked(i)

\* C19: the cooldown is per executor: an executor whose own last successful
\* execution is absent or more than 5 s old invokes its action on its
\* matching transition also while another executor is within its cooldown.
C19_PerExecutor == [][C19_Step]_vars

C19_Witness ==
    \E i \in Executors, j \in Executors :
        /\ executors[i].transition # executors[j].transition
        /\ Len(invoked[i]) = 1 /\ invoked[i][1].result = "Ok"
        /\ Len(invoked[j]) = 1 /\ invoked[j][1].result = "Ok"
        /\ invoked[j][1].at > invoked[i][1].end
        /\ invoked[j][1].at <= invoked[i][1].end + Cooldown

\* the modes put on the channel before Terminate, in order
Terminated == {k \in 1..Len(sent) : sent[k] = Terminate}
Emitted ==
    LET last == IF Terminated = {} THEN Len(sent)
                ELSE (CHOOSE k \in Terminated : \A l \in Terminated : k <= l) - 1
    IN  [k \in 1..last |-> sent[k].mode]

IsPrefix(p, q) == Len(p) <= Len(q) /\ \A k \in 1..Len(p) : p[k] = q[k]

\* with n modes received, the rest of Emitted is waiting at the head of the
\* channel
Pending(n) ==
    /\ n <= Len(Emitted)
    /\ Len(channel) >= Len(Emitted) - n
    /\ \A k \in 1..(Len(Emitted) - n) : channel[k] = Mode(Emitted[n + k])

\* C20: every mode put on the channel before Terminate is handed to every
\* executor exactly once and in the order sent, each event to the executors
\* in registration order; when the loop has ended each executor has been
\* handed exactly those modes.
C20_EveryEventOnce ==
    /\ \A i \in Executors : IsPrefix(Modes(i), Emitted)
    /\ \A i \in Executors, j \in Executors :
          i < j => (Len(Modes(j)) <= Len(Modes(i)) /\ Len(Modes(i)) <= Len(Modes(j)) + 1)
    /\ rt.pc \in {"exec", "action"} =>
          \E n \in 1..Len(Emitted) :
              /\ rt.mode = Some(Emitted[n])
              /\ \A i \in Executors :
                    Len(Modes(i)) =
                        IF i < rt.i \/ (i = rt.i /\ rt.pc = "action") THEN n ELSE n - 1
              /\ Pending(n)
    /\ rt.pc = "recv" => \A i \in Executors : Pending(Len(Modes(i)))
    /\ rt.pc \in {"stopped", "failed"} => \A i \in Executors : Modes(i) = Emitted

C20_Witness ==
    /\ rt.pc = "stopped"
    /\ Len(executors) = 2
    /\ Emitted = <<"Content", "Slate">>
    /\ Len(sent) = 4
    /\ invoked[1] # <<>>


\* ---------------------------------------------------------------- C21
TerminateSent == \E k \in 1..Len(sent) : sent[k] = Terminate

\* C21: whenever main_loop has ended, be it on a termination signal, on an
\* end-of-stream message or on a bus error, the pipeline is in the Null state
\* and a Terminate event has been sent to the action runtime.
C21_TerminationClean ==
    Returned => (pipeline = "Null" /\ TerminateSent)

\* ---------------------------------------------------------------- C22
NoBusError == \A k \in 1..Len(bus) : bus[k] # "Error"

\* C22: once the running flag is cleared while main_loop is in progress, then
\* whatever messages other than errors keep arriving on the bus, main_loop
\* eventually ends with the pipeline in Null and Terminate sent, and the
\* action runtime is gone.
C22_SignalObserved ==
    (~running /\ ~Returned /\ []NoBusError)
        ~> (Returned /\ pipeline = "Null" /\ TerminateSent /\ ~ReceiverAlive)


\* ---------------------------------------------------------------- C23
\* the watchers whose config object, resp. workload, carries app=hawkeye and
\* a watcher_id label
LabelledConfigs ==
    {id \in Ids : Exists(config_maps, ConfigName(id)) /\ Selected(config_maps[ConfigName(id)])}

LabelledWorkloads ==
    {id \in Ids : Exists(deployments, DeployName(id)) /\ Selected(deployments[DeployName(id)])}

\* the reply of List: one watcher per labelled config object, each with the
\* status the join on watcher_id gives it, Error when no workload was found
C23_ListReplied ==
    \A c \in Clients :
        Replied(req[c], "list") =>
            LET body == Unwrap(req[c].body)
                index == req[c].index
            IN  /\ req[c].code = 200
                /\ Len(body) = Cardinality(LabelledConfigs)
                /\ \A id \in LabelledConfigs : \E k \in 1..Len(body) : body[k].id = Some(id)
                /\ \A k \in 1..Len(body) :
                        LET id == Unwrap(body[k].id)
                        IN  body[k].status =
                                Some(IF id \in DOMAIN index THEN index[id] ELSE "Error")

\* the join's other side: List finds exactly the labelled workloads and
\* derives the status of each from the workload itself
C23_IndexStep ==
    \A c \in Clients :
        (req[c].pc = "idle" /\ req'[c].pc = "list_config") =>
            /\ DOMAIN req'[c].index = LabelledWorkloads
            /\ \A id \in LabelledWorkloads :
                    req'[c].index[id] = get_watcher_status(deployments[DeployName(id)])

\* C23: List returns one watcher per config object labelled
\* app=hawkeye,watcher_id; a watcher whose workload List found has that
\* workload's derived status, a watcher whose workload is absent has Error.
C23_ListJoin == []C23_ListReplied /\ [][C23_IndexStep]_vars

\* List has replied with two watchers: one with a workload that is Ready or
\* Running, one whose workload is gone and that is reported as Error
C23_Witness ==
    \E c \in Clients :
        /\ Replied(req[c], "list")
        /\ LET body == Unwrap(req[c].body)
               index == req[c].index
           IN  /\ Len(body) = 2
               /\ \E k \in 1..2 :
                    /\ Unwrap(body[k].id) \in DOMAIN index
                    /\ body[k].status \in {Some("Ready"), Some("Running")}
               /\ \E k \in 1..2 :
                    /\ Unwrap(body[k].id) \notin DOMAIN index
                    /\ ~Exists(deployments, DeployName(Unwrap(body[k].id)))
                    /\ body[k].status = Some("Error")


\* ---------------------------------------------------------------- C24
\* the first hostname or ip a Service's load-balancer status reports
FirstAddress(svc) ==
    IF svc.ingress = <<>> THEN None
    ELSE IF svc.ingress[1].hostname # None THEN svc.ingress[1].hostname
         ELSE svc.ingress[1].ip

C24_Step ==
    \A c \in Clients :
        (req[c].pc = "get_config" /\ Replied(req'[c], "get") /\ req'[c].code = 200) =>
            LET w == Unwrap(req'[c].body)
                name == ServiceName(req[c].id)
            IN  IF w.status = Some("Error") THEN w.ingest_ip = None
                ELSE Exists(services, name) => w.ingest_ip = FirstAddress(services[name])

\* C24: when Get replies with a watcher whose derived status is not Error,
\* ingest_ip is the first hostname or ip of the load-balancer status of the
\* watcher's ingress; when the status is Error, ingest_ip is absent.
C24_IngestIp == [][C24_Step]_vars


\* ---------------------------------------------------------------- C25
\* is_valid has been evaluated on the watcher at hand
Checked == "valid" \in DOMAIN probe /\ probe.phase # "in"

Recognised(url) ==
    \E scheme \in {"http://", "https://", "file://"} : starts_with(url, scheme)

\* C25: is_valid fails when slate_url begins with none of http://, https://,
\* file://, and fails when ingest_port is not strictly between 1024 and 60000
\* (1024 and 60000 rejected, 1025 and 59999 accepted); otherwise it succeeds.
C25_Validation ==
    Checked =>
        LET url == probe.w.slate_url
            port == probe.w.source.ingest_port
        IN  /\ ~Recognised(url) => ~probe.valid
            /\ port \notin 1025..59999 => ~probe.valid
            /\ port \in {1024, 60000} => ~probe.valid
            /\ (Recognised(url) /\ port \in 1025..59999) => probe.valid
            /\ (Recognised(url) /\ port \in {1025, 59999}) => probe.valid

\* a watcher with a recognised slate url and port 59999 was found valid
C25_Witness ==
    /\ Checked
    /\ Recognised(probe.w.slate_url)
    /\ probe.w.source.ingest_port = 59999
    /\ probe.valid

\* ---------------------------------------------------------------- C26
\* a scheme, "://" and whatever follows
HasScheme(url) == \E i \in 2..Len(url) - 2 : SubSeq(url, i, i + 2) = "://"

ActionUrlsOf(w) ==
    UNION {{w.transitions[k].actions[n].url : n \in 1..Len(w.transitions[k].actions)} :
            k \in 1..Len(w.transitions)}

\* C26: a watcher is valid only if the URL of every action of every one of
\* its transitions has a scheme.
C26_ActionsValidated ==
    (Checked /\ probe.valid) => \A url \in ActionUrlsOf(probe.w) : HasScheme(url)


\* ---------------------------------------------------------------- C27
Written == probe.phase \in {"written", "read", "rewritten"}
ReadBack == probe.phase \in {"read", "rewritten"}

WatcherOptions == {"id", "description", "status"}
HttpCallOptions == {"description", "authorization", "headers", "body", "retries", "timeout"}

\* the serialised form has a key for an optional field iff the field is present
OmitsAbsent(w, j) ==
    /\ \A key \in WatcherOptions : key \in DOMAIN j <=> w[key] # None
    /\ \A k \in 1..Len(w.transitions) :
        \A n \in 1..Len(w.transitions[k].actions) :
            \A key \in HttpCallOptions :
                key \in DOMAIN j["transitions"][k]["actions"][n]
                    <=> w.transitions[k].actions[n][key] # None

\* C27: for every watcher that passes validation, parsing its serialised form
\* gives the watcher back, the serialised form leaves out the absent optional
\* fields, and serialising the parsed watcher reproduces the same JSON value.
C27_RoundTrip ==
    (Checked /\ probe.valid) =>
        /\ Written => OmitsAbsent(probe.w, probe.json)
        /\ ReadBack => probe.back = Some(probe.w)
        /\ probe.phase = "rewritten" => probe.again = probe.json

\* a valid watcher with absent and present optional fields and two
\* transitions has gone through to_string, from_str and to_string again
C27_Witness ==
    /\ Checked
    /\ probe.valid
    /\ probe.phase = "rewritten"
    /\ probe.w.description = None
    /\ probe.w.status = Some("Running")
    /\ Len(probe.w.transitions) = 2
    /\ \E n \in 1..Len(probe.w.transitions[1].actions) :
            /\ probe.w.transitions[1].actions[n].body = None
            /\ probe.w.transitions[1].actions[n].headers # None
    /\ "description" \notin DOMAIN probe.json
    /\ probe.json["status"] = "running"
    /\ probe.json["source"]["container"] \in {"mpeg-ts", "fmp4"}


\* ---------------------------------------------------------------- C28
\* is_match has been evaluated on the score at hand
Compared == "score" \in DOMAIN probe /\ probe.phase = "out"

\* the score times 1000 lies in [v, v + 1)
TruncatesTo(score, v) == v * 10 <= score /\ score < (v + 1) * 10

\* C28: is_match is true iff the score times 1000, truncated to an integer,
\* is at most 900: 900 matches, 901 does not, and a frame identical to the
\* slate (score 0) matches.
C28_Threshold ==
    Compared =>
        /\ \A v \in 0..MaxScore :
                TruncatesTo(probe.score, v) => (probe.matched <=> v <= 900)
        /\ TruncatesTo(probe.score, 900) => probe.matched
        /\ TruncatesTo(probe.score, 901) => ~probe.matched
        /\ probe.score = 0 => probe.matched

\* a score of 0.9009, which truncates to 900, was taken for a match
C28_Witness ==
    /\ Compared
    /\ probe.score = 9009
    /\ probe.matched


\* ---------------------------------------------------------------- C29
\* executor i is inside execute, waiting for its action to return
InAction(i) == rt.pc = "action" /\ rt.i = i

\* the mode of the k-th event handed to executor i, None before the first
ModeAt(i, k) == IF k = 0 THEN None ELSE Some(Modes(i)[k])

\* C29: once execute(m) has returned, last_mode is m, whether the event was
\* the first, did not match, was blocked by the cooldown, or ran the action
\* with success or failure; until then it is the mode of the event before.
C29_LastMode ==
    \A i \in Executors :
        executors[i].last_mode =
            IF InAction(i) THEN ModeAt(i, Len(Modes(i)) - 1)
            ELSE ModeAt(i, Len(Modes(i)))

\* the executor's action has failed on a transition into a mode, a later
\* matching transition was blocked by the cooldown of an earlier success, and
\* last_mode is the mode of the last event
C29_Witness ==
    \E i \in Executors :
        /\ ~InAction(i)
        /\ rt.pc = "recv"
        /\ \E k \in Calls(i) : invoked[i][k].result = "Err"
        /\ \E k \in Calls(i) : invoked[i][k].result = "Ok"
        /\ \E n \in 2..Len(Modes(i)) :
                /\ Transition(Modes(i)[n - 1], Modes(i)[n]) = executors[i].transition
                /\ \A k \in Calls(i) : invoked[i][k].n # n
        /\ executors[i].last_mode = Some(Modes(i)[Len(Modes(i))])

\* ---------------------------------------------------------------- C30
\* the last call of executor i that returned Ok, if any
LastOk(i) ==
    IF \E k \in Calls(i) : invoked[i][k].result = "Ok"
    THEN Some(invoked[i][CHOOSE k \in Calls(i) :
                            /\ invoked[i][k].result = "Ok"
                            /\ \A j \in Calls(i) : j > k => invoked[i][j].result # "Ok"].end)
    ELSE None

\* last_call is the time the last successful call returned
C30_LastCall ==
    \A i \in Executors : executors[i].last_call = LastOk(i)

\* last_call changes only in the step in which the action returns Ok, and
\* becomes the time of that step
C30_Step ==
    \A i \in Executors :
        executors'[i].last_call # executors[i].last_call =>
            /\ InAction(i)
            /\ invoked'[i][Len(invoked[i])].result = "Ok"
            /\ executors'[i].last_call = Some(clock)

\* C30: last_call changes only when the action was invoked and returned
\* success, and is then the current time; a failed call, a non-matching event
\* and an event blocked by the cooldown leave it as it was.
C30_LastCallFrame == []C30_LastCall /\ [][C30_Step]_vars

\* a call failed and the next matching transition ran the action again in
\* the same second, successfully, which set last_call
C30_Witness ==
    \E i \in Executors :
        \E k \in Calls(i) :
            /\ k + 1 \in Calls(i)
            /\ invoked[i][k].result = "Err"
            /\ invoked[i][k + 1].at - invoked[i][k].end < Cooldown
            /\ invoked[i][k + 1].result = "Ok"
            /\ executors[i].last_call = Some(invoked[i][k + 1].end)


\* ---------------------------------------------------------------- C31
\* the loop of run_blocking has been left through `break`: Ok(()) is returned
Stopped == rt.pc = "stopped"

\* the step in which recv() yields Terminate
TakesTerminate ==
    /\ rt.pc = "recv"
    /\ channel # <<>>
    /\ Head(channel) = Terminate
    /\ Len(channel') < Len(channel)

C31_Step ==
    /\ TakesTerminate =>
          /\ rt'.pc = "stopped"
          /\ channel' = Tail(channel)
          /\ UNCHANGED <<executors, seen, invoked>>
    /\ Stopped =>
          /\ rt' = rt
          /\ IsPrefix(channel, channel')
          /\ UNCHANGED <<executors, seen, invoked>>

\* C31: on receiving Terminate run_blocking leaves its loop and returns Ok
\* without handing the event to any executor; from then on nothing is taken
\* from the channel and no executor is handed or runs anything, whatever is
\* queued behind Terminate.
C31_TerminateEnds ==
    /\ [](Stopped => \A i \in Executors : Modes(i) = Emitted)
    /\ [][C31_Step]_vars

\* the runtime has stopped on Terminate after handling a mode, and a mode
\* sent after Terminate is left on the channel
C31_Witness ==
    /\ Stopped
    /\ channel # <<>>
    /\ Emitted # <<>>
    /\ \E k \in 1..Len(sent) : k > Len(Emitted) + 1 /\ sent[k] = channel[1]


\* ---------------------------------------------------------------- C32
\* the events at which an action of executor i failed
FailedAt(i) == {invoked[i][k].n : k \in {l \in 1..Len(invoked[i]) : invoked[i][l].result = "Err"}}

\* the step in which the action of the executor at work returns an error
ActionFails ==
    /\ rt.pc = "action"
    /\ rt'.pc # "action"
    /\ invoked'[rt.i][Len(invoked[rt.i])].result = "Err"

C32_Step ==
    ActionFails =>
        /\ rt' = IF rt.i < Len(executors)
                 THEN [pc |-> "exec", mode |-> rt.mode, i |-> rt.i + 1]
                 ELSE [pc |-> "recv", mode |-> None, i |-> 0]
        /\ UNCHANGED <<channel, sender>>

\* C32: an action that fails never ends the runtime: the step in which it
\* fails goes on to the next executor with the same mode (or to the next
\* recv), the loop ends only on Terminate or when every sender is gone, and
\* an executor whose action failed at some event, like every executor
\* registered after it, is still handed that event and all that follow.
C32_FailureContinues ==
    /\ [](/\ rt.pc = "stopped" => TerminateSent
          /\ rt.pc = "failed" => (sender = "dropped" /\ channel = <<>>)
          /\ \A i \in Executors : \A n \in FailedAt(i) :
                /\ IsPrefix(Modes(i), Emitted)
                /\ \A j \in Executors :
                      j > i => (Len(Modes(j)) >= n \/ (rt.pc \in {"exec", "action"} /\ rt.i <= j))
                /\ rt.pc \in {"stopped", "failed"} =>
                      \A j \in Executors : Modes(j) = Emitted)
    /\ [][C32_Step]_vars

\* the first executor's action failed at the second event; the second
\* executor was handed that event and both were handed the third
C32_Witness ==
    /\ Len(executors) = 2
    /\ FailedAt(1) = {2}
    /\ Len(Modes(1)) = 3
    /\ Len(Modes(2)) = 3


\* ---------------------------------------------------------------- C33
\* the mode events put on the channel so far
ModeEvents == {k \in 1..Len(sent) : sent[k] # Terminate}

\* the step in which the callback's send puts an event on the channel
Emits == handler.pc = "send" /\ handler'.pc = "similarity"

C33_Step ==
    Emits =>
        /\ sent' = Append(sent, Mode(IF handler.is_match THEN "Slate" ELSE "Content"))
        /\ LatestFrame = Some(Bytes(handler.n))
        /\ cell' = cell

\* every run of the callback that has ended left one event and one count
C33_AtRest ==
    HandlerAtRest =>
        /\ Cardinality(ModeEvents) = handler.n
        /\ metrics.similarity = metrics.slate + metrics.content

\* C33: the new-sample callback emits exactly one mode event per sample it
\* has read, Mode(Slate) if is_match holds of the sample and Mode(Content)
\* otherwise, the sample's bytes being the committed latest frame when the
\* event is emitted; after each run of the callback the similarity-executions
\* counter equals slate-found plus content-found.
C33_OneEventPerSample == []C33_AtRest /\ [][C33_Step]_vars

\* the same of the runs that reach the end of the callback
C33_CompletedRuns ==
    /\ [](handler.pc = "idle" =>
            /\ Cardinality(ModeEvents) = handler.n
            /\ metrics.similarity = metrics.slate + metrics.content)
    /\ [][C33_Step]_vars


\* ---------------------------------------------------------------- C34
\* what the reader holds is the beginning of the frame that was the latest
\* when it began (the snap-th sample's), or nothing
Untorn ==
    IF reader.snap = 0 THEN reader.copy = <<>>
    ELSE /\ reader.snap <= cell.active
         /\ IsPrefix(reader.copy, Bytes(reader.snap))

\* a reader that is done holds that frame whole
Whole == (reader.pc = "done" /\ reader.snap # 0) => reader.copy = Bytes(reader.snap)

\* whatever the reader is doing, the writer's next step can be taken
WriterFree ==
    /\ (Alive /\ handler.pc = "write") => ENABLED WriteTxn
    /\ (Alive /\ handler.pc = "commit") => ENABLED Commit

\* a read starts from the frame committed last, and leaves the cell alone
C34_Step ==
    /\ (reader.pc # "copy" /\ reader'.pc = "copy") =>
          (reader'.snap = cell.active /\ LatestFrame \in {None} \cup {Some(Bytes(k)) : k \in 1..handler.n})
    /\ reader' # reader => (cell' = cell /\ handler' = handler)

PerformsSend == handler.pc = "send" /\ handler'.pc # "send"

\* C37: the new-sample callback never performs its send on a channel whose
\* receiver is gone: whenever a callback reaches
\* action_sink.send(Event::Mode(..)), run_blocking has not yet returned, so
\* that no callback panics in unwrap.
C37_NeverSendsToDeadChannel ==
    [](callback # "panicked") /\ [][PerformsSend => ReceiverAlive]_vars


\* ---------------------------------------------------------------- C38
\* the step in which the HttpCall of the executor at work returns
CallReturns == rt.pc = "action" /\ rt'.pc # "action"

C38_Step ==
    CallReturns =>
        LET i == rt.i
            response == Unwrap(metrics'.response)
            result == invoked'[i][Len(invoked[i])].result
        IN  /\ result = IF response.readable THEN "Ok" ELSE "Err"
            /\ executors'[i].last_call =
                   IF response.readable THEN Some(clock) ELSE executors[i].last_call
            /\ metrics'.http_success =
                   metrics.http_success + IF response.status \in 200..299 THEN 1 ELSE 0
            /\ metrics'.http_error =
                   metrics.http_error + IF response.status \in 200..299 THEN 0 ELSE 1

\* a call that returned after its body was read keeps the executor from
\* running again for the cooldown, whatever the status was
C38_Cooldown ==
    \A i \in Executors : \A k \in Calls(i) :
        (k + 1 \in Calls(i) /\ invoked[i][k].result = "Ok") =>
            invoked[i][k + 1].at > invoked[i][k].end + Cooldown

\* C38: an HttpCall whose response is not 2xx is reported to the executor as
\* success like a 2xx one: only the counter differs (error instead of
\* success), last_call is set and the cooldown starts. Only a response whose
\* body cannot be read is reported as a failure, which leaves last_call as
\* it was.
C38_Non2xxIsSuccess == []C38_Cooldown /\ [][C38_Step]_vars

\* a call got a 500 whose body was read: it counted as an error, set
\* last_call, and the next matching transition, within the cooldown, did not
\* run the action
C38_Witness ==
    /\ Len(invoked[1]) = 1
    /\ invoked[1][1].result = "Ok"
    /\ metrics.response = Some([status |-> 500, readable |-> TRUE])
    /\ metrics.http_error = 1
    /\ metrics.http_success = 0
    /\ executors[1].last_call = Some(invoked[1][1].end)
    /\ executors[1].transition = Transition("Content", "Slate")
    /\ seen[1].modes = <<"Content", "Slate", "Content", "Slate">>
    /\ rt.pc = "recv"


\* ---------------------------------------------------------------- C35
\* the controller has caught up with the Deployment's replica count
Converged(d) ==
    /\ d.status # None
    /\ UnwrapOr(Unwrap(d.status).available_replicas, 0) = d.replicas

\* the target_status label says what the replica count says
LabelAgrees(d) ==
    \/ d.replicas = 1 /\ TargetIs(d, "running")
    \/ d.replicas = 0 /\ TargetIs(d, "ready")

\* C35: once every Start and Stop request of a watcher has ended and the
\* orchestrator has converged, the workload's target_status label agrees with
\* its replica count (Running with 1, Ready with 0), so that the derived
\* status is Ready or Running and not Pending for good.
C35_NoStuckPending ==
    \A id \in Ids :
        LET name == deployment_name(id)
        IN  (/\ InFlight = {}
             /\ Exists(deployments, name)
             /\ Converged(deployments[name])) =>
                /\ LabelAgrees(deployments[name])
                /\ get_watcher_status(deployments[name]) \in {"Ready", "Running"}


\* ---------------------------------------------------------------- C36
\* the objects of watcher id that exist
ObjectsOf(id) ==
    {kind \in {"configmap", "deployment", "service"} :
        CASE kind = "configmap" -> Exists(config_maps, configmap_name(id))
          [] kind = "deployment" -> Exists(deployments, deployment_name(id))
          [] kind = "service" -> Exists(services, service_name(id))}

\* the Create that was given id has ended, with a reply or without
CreateEnded(id) ==
    /\ id < nextId
    /\ \A c \in Clients : (req[c].op = "create" /\ req[c].id = id) => req[c].pc \in {"done", "panicked"}

\* C36: once a Create request has ended, whether it replied 201 or one of
\* its three create RPCs failed, the config object, the workload and the
\* ingress of its id all exist or none of them does.
C36_CreateAllOrNothing ==
    \A id \in Ids :
        CreateEnded(id) => ObjectsOf(id) \in {{}, {"configmap", "deployment", "service"}}


\* ---------------------------------------------------------------- C39
\* c1 and c2 hold the replies to two requests op on one watcher, one of which
\* had ended when the other arrived
OneAfterTheOther(c1, c2, op) ==
    /\ c1 # c2
    /\ ~Overlapped(c1, c2)
    /\ Replied(req[c1], op) /\ Replied(req[c2], op)
    /\ req[c1].id = req[c2].id

\* the workload had not been reported on by the controller when c's handler
\* fetched it; it is reported on from the first time on
Unreported(c) == ~HasObserved(Unwrap(req[c].dep))

StaysReported ==
    \A id \in Ids :
        LET name == deployment_name(id)
        IN  (Exists(deployments, name) /\ HasObserved(deployments[name])) =>
                (Exists(deployments', name) /\ HasObserved(deployments'[name]))

C39_WitnessStop ==
    /\ OneAfterTheOther("c1", "c2", "stop")
    /\ req["c1"].code = 200
    /\ req["c2"].code = 409
    /\ TableReady(Unwrap(req["c2"].dep))


\* ---------------------------------------------------------------- C40
\* a step of the handler of client c's Start or Stop request
StartStopStep(c) == req'[c] # req[c] /\ req'[c].op \in {"start", "stop"}

\* what identifies a Deployment as its watcher's: name and watcher_id label
IdOf(d) == <<d.name, IF d.labels = None THEN None
                     ELSE {Unwrap(d.labels)[k] : k \in {"watcher_id"} \cap DOMAIN Unwrap(d.labels)}>>

C40_Step ==
    \A c \in Clients :
        StartStopStep(c) =>
            LET id == req'[c].id
            IN  /\ config_maps' = config_maps
                /\ services' = services
                /\ OthersKept(id)
                /\ DOMAIN deployments' = DOMAIN deployments
                /\ Exists(deployments, DeployName(id)) =>
                      IdOf(deployments'[DeployName(id)]) = IdOf(deployments[DeployName(id)])
                /\ nextId' = nextId

\* C40: whatever a Start or Stop answers (200, 404, 406, 409), every step of
\* its handler leaves the config objects, the ingresses and every workload
\* but the addressed watcher's as they are, creates and deletes nothing, and
\* leaves the addressed workload's name and watcher_id label, hence the
\* watcher's id, unchanged.
C40_StartStopFrame == [][C40_Step]_vars

\* a Start on watcher 1 was answered 200 while watcher 2 exists as well, its
\* workload still as created
C40_Witness ==
    \E c \in Clients :
        /\ Replied(req[c], "start") /\ req[c].code = 200 /\ req[c].id = 1
        /\ TargetIs(deployments[DeployName(1)], "running")
        /\ Exists(deployments, DeployName(2)) /\ FreshlyCreated(deployments[DeployName(2)])
        /\ Exists(config_maps, ConfigName(2)) /\ Exists(services, ServiceName(2))

====
